---- MODULE Spec2Model ----
(***************************************************************************)
(* Model of the persistence layer of the parallel Walmart scraper          *)
(* (scrape_walmart_parallel.py): the snapshot file, its temporary file,    *)
(* the backups directory, and save_results_thread_safe as the sequence of  *)
(* file-system steps it performs.  Two operating-system processes can run  *)
(* the scraper on the same snapshot (split_products_for_two_computers.py), *)
(* and the cleanup script remove_not_found_products.py rewrites the        *)
(* snapshot in place.                                                      *)
(***************************************************************************)
EXTENDS Integers, Sequences, FiniteSets, TLC

VARIABLES
    output_file,   \* content of the snapshot file
    temp_file,     \* content of output_file + '.tmp'
    backup_dir,    \* backups directory: timestamp |-> content of that backup
    now,           \* wall clock in whole seconds (the backup timestamp)
    sv,            \* per process: locals of save_results_thread_safe
    cl,            \* the cleanup script's position and data
    saves,         \* number of calls that returned after writing
    product_queue, \* scrape_parallel's product_queue: names, then stop signals
    unfinished,    \* product_queue.unfinished_tasks, what join() waits for
    result_queue,  \* result_queue: found records, then the stop signal
    wk,            \* per worker: locals of worker_thread
    qm,            \* locals of queue_manager
    mn,            \* position of scrape_parallel's main thread
    retry_queue,   \* the in-memory retry queue: product name |-> attempts
    retry_file,    \* content of retry_queue.json
    sq,            \* locals of scrape_all_products_from_spreadsheet
    ms,            \* locals of one call of search_walmart_for_product
    sp             \* scrape_parallel's start-up: the Product column and what it loaded

\* the variables of the persistence layer
store == <<output_file, temp_file, backup_dir, now, sv, cl, saves>>
\* the variables of the worker pool, of the retry queue and of the sequential scraper
Rest == <<product_queue, unfinished, result_queue, wk, qm, mn, retry_queue, retry_file, sq, ms, sp>>

vars == <<output_file, temp_file, backup_dir, now, sv, cl, saves,
          product_queue, unfinished, result_queue, wk, qm, mn,
          retry_queue, retry_file, sq, ms, sp>>

(* ------------------------------ bounds -------------------------------- *)

\* longest products list of the initial snapshot
MaxStored == 2
\* longest batch passed to one save call
MaxBatch == 2
\* the clock of the general specifications runs from 0 to MaxClock
MaxClock == 1
\* the backup-rotation scenario: this many successive saves
SavesClaimed == 25

\* the two cooperating processes; the second is off unless a specification starts it
Procs == {1, 2}

NoName == "<none>"
Names == {"a", "b"}
AllNames == Names \cup {NoName}

(* ------------------------ program constants --------------------------- *)

max_retries == 3
max_backups == 20

(* ------------------------------ data ---------------------------------- *)

\* a ScrapeRecord: product_name (NoName: the key is absent or empty),
\* found, and tag standing for the rest of the fields
Rec(n, f, t) == [product_name |-> n, found |-> f, tag |-> t]

MissingFile == [kind |-> "missing", products |-> <<>>]
\* not parseable as JSON (json.JSONDecodeError), e.g. empty or cut short
CorruptFile == [kind |-> "corrupt", products |-> <<>>]
\* parseable JSON whose top level is not an object: data.get raises AttributeError
BadFile == [kind |-> "bad", products |-> <<>>]
\* a snapshot document as the writers of the repository leave it: the
\* records with their two counts
OkFile(ps) == [kind |-> "ok", products |-> ps, total_products |-> Len(ps),
               products_found |-> Len(SelectSeq(ps, LAMBDA r : r.found))]

SeqsUpTo(S, n) == UNION {[1..k -> S] : k \in 0..n}

\* the batches the aggregator passes: its buffer when it is not empty,
\* records of found products in arrival order
Batches == {[i \in 1..Len(ns) |-> Rec(ns[i], TRUE, 10 + i)] : ns \in SeqsUpTo(AllNames, MaxBatch) \ {<<>>}}

\* initial snapshots: written by any of the repository's writers, so
\* duplicates and records without a name occur (check_duplicates.py)
StoredLists == {[i \in 1..Len(ns) |-> Rec(ns[i], (i % 2 = 1), i)] : ns \in SeqsUpTo(AllNames, MaxStored)}

InitFiles == {MissingFile, CorruptFile, BadFile} \cup {OkFile(ps) : ps \in StoredLists}

\* initial backups directory: empty, or one earlier backup at time 0
InitBackups == {<<>>} \cup {[t \in {0} |-> d] : d \in {CorruptFile, OkFile(<<Rec("b", TRUE, 9)>>)}}

Range(s) == {s[i] : i \in DOMAIN s}
NamesOf(s) == {s[i].product_name : i \in DOMAIN s}
\* the last record of s with name n
LastOf(s, n) == s[CHOOSE i \in DOMAIN s : s[i].product_name = n /\ \A j \in DOMAIN s : s[j].product_name = n => j <= i]
NoDuplicates(s) == \A i, j \in DOMAIN s : s[i].product_name = s[j].product_name => i = j

(* --------------------------- pure helpers ----------------------------- *)

\* faulty variant: the record is appended whether or not its key is present
DictPutAppend(d, r) == Append(d, r)

\* results_dict[key] = r on an insertion-ordered dict kept as the list of its values
DictPut(d, r) ==
    IF \E i \in DOMAIN d : d[i].product_name = r.product_name
    THEN [i \in DOMAIN d |-> IF d[i].product_name = r.product_name THEN r ELSE d[i]]
    ELSE Append(d, r)

RECURSIVE DictFromList(_)
\* {r.get('product_name'): r for r in existing_results}
DictFromList(list) ==
    IF list = <<>> THEN <<>>
    ELSE DictPut(DictFromList(SubSeq(list, 1, Len(list) - 1)), list[Len(list)])

RECURSIVE OverlayKeepsOld(_, _)
\* faulty variant: a batch record does not replace a record already under its key
OverlayKeepsOld(d, results) ==
    IF results = <<>> THEN d
    ELSE LET r == results[Len(results)]
             rest == OverlayKeepsOld(d, SubSeq(results, 1, Len(results) - 1))
         IN IF r.product_name # NoName /\ r.product_name \notin NamesOf(rest)
            THEN Append(rest, r) ELSE rest

RECURSIVE Overlay(_, _)
\* for result in results: if product_name: results_dict[product_name] = result
Overlay(d, results) ==
    IF results = <<>> THEN d
    ELSE LET r == results[Len(results)]
             rest == Overlay(d, SubSeq(results, 1, Len(results) - 1))
         IN IF r.product_name # NoName THEN DictPut(rest, r) ELSE rest

\* faulty variant: the first reloaded record is left out of the dict
MergeDropsFirst(existing_results, results) ==
    Overlay(DictFromList(IF existing_results = <<>> THEN <<>> ELSE Tail(existing_results)), results)

\* all_results = list(results_dict.values())
MergeResults(existing_results, results) == Overlay(DictFromList(existing_results), results)

\* the final safety check of save_results_thread_safe
WouldLoseData(existing_results, all_results) ==
    LET original_dict_size == Len(DictFromList(existing_results))
    IN original_dict_size > 0 /\ Len(all_results) < original_dict_size

\* backup_files[max_backups:] of the reverse-sorted listing is removed
KeptBackups(S, k) == {t \in S : Cardinality({u \in S : u > t}) < k}

\* create_backup: copy the snapshot to <name>_backup_<timestamp>.json, then rotate
BackupAdded(dir, t, content, k) ==
    LET all == [u \in (DOMAIN dir) \cup {t} |-> IF u = t THEN content ELSE dir[u]]
    IN [u \in KeptBackups(DOMAIN all, k) |-> all[u]]

\* products of the first file of the reverse-sorted backup listing; <<>> when
\* there is none or it cannot be loaded
LatestBackupProducts(dir) ==
    IF DOMAIN dir = {} THEN <<>>
    ELSE LET latest == CHOOSE t \in DOMAIN dir : \A u \in DOMAIN dir : u <= t
         IN IF dir[latest].kind = "ok" THEN dir[latest].products ELSE <<>>

\* lines 211-216: the counts written into the snapshot with the products
TotalProducts(file) == Len(file.products)
ProductsFound(file) == Len(SelectSeq(file.products, LAMBDA r : r.found))

\* faulty variant: every record is counted as found
OutputDataAllFound(all_results) ==
    [kind |-> "ok", products |-> all_results, total_products |-> Len(all_results),
     products_found |-> Len(all_results)]

\* lines 211-216: output_data, the document that is dumped
OutputData(all_results) ==
    [kind |-> "ok", products |-> all_results, total_products |-> Len(all_results),
     products_found |-> Len(SelectSeq(all_results, LAMBDA r : r.found))]

\* what save_results_thread_safe hands back to its caller on each path
ReturnValue(outcome) == "None"

\* what the caller can observe of a returned call: the value and whether an
\* exception propagated (every path returns None; line 230 catches everything)
CallerView(outcome) == [value |-> ReturnValue(outcome), raised |-> FALSE]

(* ----------------------- save_results_thread_safe --------------------- *)

\* a process that is not inside a call.  Besides the function's locals, sv
\* records the snapshot as it was when the call started (file_at_call),
\* whether the call repeats the batch of the call before it (repeat),
\* whether the merge was reached (merged), which inode the process has open
\* for writing (fd, shared), whether the clock moved during the call, and the
\* exception that left load_existing_results, if one did (load_error).
IdleSv == [pc |-> "idle", results |-> <<>>, existing_count_before |-> 0,
           attempt |-> 0, loaded |-> <<>>, existing_results |-> <<>>,
           all_results |-> <<>>, outcome |-> "none", fd |-> "closed",
           calls |-> 0, file_at_call |-> MissingFile, repeat |-> FALSE,
           merged |-> FALSE, shared |-> FALSE, ticked |-> FALSE, load_error |-> "none",
           returned |-> [value |-> "", raised |-> FALSE]]

\* the call ends: log, and return on the path that gave this outcome
Finish(s, outcome) == [s EXCEPT !.outcome = outcome, !.pc = "done", !.returned = CallerView(outcome)]

OffSv == [IdleSv EXCEPT !.pc = "off"]

Others == <<cl, saves, Rest>>

\* the aggregator calls save_results_thread_safe(buffer, output_file)
Call(p) ==
    /\ sv[p].pc = "idle"
    /\ sv[p].calls = 0
    /\ \E b \in Batches :
          sv' = [sv EXCEPT ![p] = [IdleSv EXCEPT !.pc = "read1", !.results = b,
                                     !.calls = sv[p].calls + 1,
                                     !.file_at_call = output_file]]
    /\ UNCHANGED <<output_file, temp_file, backup_dir, now, Others>>

\* the same batch is passed again right after a call that wrote it
CallAgain(p) ==
    /\ sv[p].pc = "done"
    /\ sv[p].outcome = "wrote"
    /\ ~sv[p].repeat
    /\ sv' = [sv EXCEPT ![p] = [IdleSv EXCEPT !.pc = "read1", !.results = sv[p].results,
                                              !.calls = sv[p].calls,
                                              !.file_at_call = output_file,
                                              !.repeat = TRUE]]
    /\ saves' = saves + 1
    /\ UNCHANGED <<output_file, temp_file, backup_dir, now, cl, Rest>>

\* lines 145-156: read the snapshot to count its products
FirstRead(p) ==
    /\ sv[p].pc = "read1"
    /\ LET n == IF output_file.kind = "ok" THEN Len(output_file.products) ELSE 0
       IN sv' = [sv EXCEPT ![p].existing_count_before = n,
                           ![p].pc = IF n > 0 THEN "backup" ELSE "load"]
    /\ UNCHANGED <<output_file, temp_file, backup_dir, now, Others>>

\* create_backup(output_file), called when the snapshot held products
CreateBackup(p) ==
    /\ sv[p].pc = "backup"
    /\ backup_dir' = IF output_file.kind # "missing"
                     THEN BackupAdded(backup_dir, now, output_file, max_backups)
                     ELSE backup_dir
    /\ sv' = [sv EXCEPT ![p].pc = "load"]
    /\ UNCHANGED <<output_file, temp_file, now, Others>>

\* what lines 61-63 raise on a file: open() on a missing file, json.load on
\* text that is not JSON, data.get on JSON that is not an object
ReadError(file) ==
    CASE file.kind = "missing" -> "FileNotFoundError"
      [] file.kind = "corrupt" -> "JSONDecodeError"
      [] file.kind = "bad" -> "AttributeError"
      [] OTHER -> "none"

\* faulty variant: there is no except clause for other exceptions
ExceptClauseNoCatchAll(err) ==
    CASE err = "FileNotFoundError" -> "line 67"
      [] err = "JSONDecodeError" -> "line 69"
      [] OTHER -> "uncaught"

\* the except clause of load_existing_results that takes the exception
ExceptClause(err) ==
    CASE err = "FileNotFoundError" -> "line 67"
      [] err = "JSONDecodeError" -> "line 69"
      [] OTHER -> "line 96"

\* one attempt of load_existing_results; the last attempt falls back to the
\* latest backup after a JSON decode error, and to [] after any other error.
\* An exception that leaves the function is caught at line 230 of the save.
LoadAttempt(p) ==
    /\ sv[p].pc = "load"
    /\ LET done(ps) == [sv EXCEPT ![p].loaded = ps, ![p].existing_results = ps,
                                   ![p].pc = "check"]
           again == [sv EXCEPT ![p].attempt = sv[p].attempt + 1]
           last == sv[p].attempt >= max_retries - 1
           err == ReadError(output_file)
           clause == ExceptClause(err)
       IN sv' = CASE err = "none" -> done(output_file.products)
                  [] clause = "line 67" -> done(<<>>)
                  [] clause = "line 69" ->
                       IF last THEN done(LatestBackupProducts(backup_dir)) ELSE again
                  [] clause = "line 96" -> IF last THEN done(<<>>) ELSE again
                  [] OTHER -> [sv EXCEPT ![p] = [Finish(sv[p], "failed") EXCEPT !.load_error = err]]
    /\ UNCHANGED <<output_file, temp_file, backup_dir, now, Others>>

\* faulty variant: the save goes on to the merge with whatever was recovered
SafetyCheckNoAbort(p) ==
    /\ sv[p].pc = "check"
    /\ sv' = [sv EXCEPT ![p].pc = "merge"]
    /\ UNCHANGED <<output_file, temp_file, backup_dir, now, Others>>

\* lines 161-187: the critical safety check, backup recovery and the abort
SafetyCheck(p) ==
    /\ sv[p].pc = "check"
    /\ LET suspicious == sv[p].existing_count_before > 0 /\ Len(sv[p].existing_results) = 0
           recovered == IF suspicious /\ Len(LatestBackupProducts(backup_dir)) > 0
                        THEN LatestBackupProducts(backup_dir)
                        ELSE sv[p].existing_results
       IN sv' = IF suspicious /\ Len(recovered) = 0
                THEN [sv EXCEPT ![p] = Finish(sv[p], "aborted")]
                ELSE [sv EXCEPT ![p].existing_results = recovered, ![p].pc = "merge"]
    /\ UNCHANGED <<output_file, temp_file, backup_dir, now, Others>>

\* lines 189-208: the merge keyed by product_name and the final safety check
Merge(p) ==
    /\ sv[p].pc = "merge"
    /\ LET all == MergeResults(sv[p].existing_results, sv[p].results)
       IN sv' = IF WouldLoseData(sv[p].existing_results, all)
                THEN [sv EXCEPT ![p] = Finish(sv[p], "aborted")]
                ELSE [sv EXCEPT ![p].all_results = all, ![p].merged = TRUE,
                                ![p].pc = "open"]
    /\ UNCHANGED <<output_file, temp_file, backup_dir, now, Others>>

\* the inode a process holds open follows a rename: the temporary file's
\* inode becomes the snapshot's, the snapshot's old inode is unlinked
FdAfterRename(fd) ==
    CASE fd = "tmp" -> "target"
      [] fd = "target" -> "orphan"
      [] OTHER -> fd

\* faulty variant: the snapshot itself is opened for writing, as save_to_output_file does
OpenTmpInPlace(p) ==
    /\ sv[p].pc = "open"
    /\ output_file' = CorruptFile
    /\ sv' = [sv EXCEPT ![p].pc = "dump", ![p].fd = "target"]
    /\ UNCHANGED <<temp_file, backup_dir, now, Others>>

\* line 220: open(temp_file, 'w') creates the file or truncates it; a process
\* that already has it open now shares the inode with this one
OpenTmp(p) ==
    /\ sv[p].pc = "open"
    /\ temp_file' = CorruptFile
    /\ sv' = [q \in Procs |->
                IF q = p THEN [sv[p] EXCEPT !.pc = "dump", !.fd = "tmp",
                                            !.shared = \E r \in Procs \ {p} : sv[r].fd = "tmp"]
                ELSE IF sv[q].fd = "tmp" THEN [sv[q] EXCEPT !.shared = TRUE]
                ELSE sv[q]]
    /\ UNCHANGED <<output_file, backup_dir, now, Others>>

\* what the inode holds after json.dump and close: the whole document, or an
\* unparseable mix when another writer had the same inode open
Dumped(doc, shared) == IF shared THEN {doc, CorruptFile} ELSE {doc}

\* line 221: json.dump(output_data, f) and the close of the with block
DumpTmp(p) ==
    /\ sv[p].pc = "dump"
    /\ \E content \in Dumped(OutputData(sv[p].all_results), sv[p].shared) :
         /\ temp_file' = IF sv[p].fd = "tmp" THEN content ELSE temp_file
         /\ output_file' = IF sv[p].fd = "target" THEN content ELSE output_file
    /\ sv' = [sv EXCEPT ![p].pc = "rename", ![p].fd = "closed"]
    /\ UNCHANGED <<backup_dir, now, Others>>

\* lines 223-229: os.replace / os.rename of the temporary file over the
\* snapshot; FileNotFoundError (caught at line 230) when it is gone
Replace(p) ==
    /\ sv[p].pc = "rename"
    /\ IF temp_file.kind = "missing"
       THEN /\ sv' = [sv EXCEPT ![p] = Finish(sv[p], "failed")]
            /\ UNCHANGED <<output_file, temp_file, cl>>
       ELSE /\ output_file' = temp_file
            /\ temp_file' = MissingFile
            /\ sv' = [q \in Procs |->
                        IF q = p THEN Finish(sv[p], "wrote")
                        ELSE [sv[q] EXCEPT !.fd = FdAfterRename(sv[q].fd)]]
            /\ cl' = [cl EXCEPT !.fd = FdAfterRename(cl.fd)]
    /\ UNCHANGED <<backup_dir, now, saves, Rest>>

\* the call returns to queue_manager, which goes on with buffer = []
Return(p) ==
    /\ sv[p].pc = "done"
    /\ sv' = [sv EXCEPT ![p] = [IdleSv EXCEPT !.calls = sv[p].calls]]
    /\ saves' = saves + (IF sv[p].outcome = "wrote" THEN 1 ELSE 0)
    /\ UNCHANGED <<output_file, temp_file, backup_dir, now, cl, Rest>>

\* the process is killed inside the call, at any step; its files stay as they are
Interrupt(p) ==
    /\ sv[p].pc \in {"read1", "backup", "load", "check", "merge", "open", "dump", "rename"}
    /\ sv' = [sv EXCEPT ![p] = [IdleSv EXCEPT !.outcome = "killed",
                                               !.calls = sv[p].calls,
                                               !.file_at_call = sv[p].file_at_call,
                                               !.merged = sv[p].merged,
                                               !.all_results = sv[p].all_results]]
    /\ UNCHANGED <<output_file, temp_file, backup_dir, now, Others>>

\* a second of wall-clock time passes.  Only create_backup reads the clock
\* (line 114), so time is let pass just before a process reads it.
Tick ==
    /\ now < MaxClock
    /\ \E p \in Procs : sv[p].pc = "backup"
    /\ now' = now + 1
    /\ UNCHANGED <<output_file, temp_file, backup_dir, sv, Others>>

SaveStep(p) ==
    \/ FirstRead(p)
    \/ CreateBackup(p)
    \/ LoadAttempt(p)
    \/ SafetyCheck(p)
    \/ Merge(p)
    \/ OpenTmp(p)
    \/ DumpTmp(p)
    \/ Replace(p)
    \/ Return(p)

(* ------------------- remove_not_found_products.py --------------------- *)

\* [p for p in data.get('products', []) if p.get('found', False) is True]
FoundOnly(ps) == SelectSeq(ps, LAMBDA r : r.found)

\* lines 11-18: load the snapshot (any failure ends the script) and filter it
CleanupRead ==
    /\ cl.pc = "start"
    /\ cl' = IF output_file.kind = "ok"
             THEN [cl EXCEPT !.pc = "loaded", !.data = FoundOnly(output_file.products)]
             ELSE [cl EXCEPT !.pc = "done"]
    /\ UNCHANGED <<output_file, temp_file, backup_dir, now, sv, saves, Rest>>

\* line 35: open(json_file, 'w') truncates the snapshot in place
CleanupOpen ==
    /\ cl.pc = "loaded"
    /\ output_file' = CorruptFile
    /\ cl' = [cl EXCEPT !.pc = "opened", !.fd = "target"]
    /\ sv' = [q \in Procs |-> IF sv[q].fd = "target" THEN [sv[q] EXCEPT !.shared = TRUE] ELSE sv[q]]
    /\ UNCHANGED <<temp_file, backup_dir, now, saves, Rest>>

\* line 36: json.dump(cleaned_data, f) into the inode opened at line 35
CleanupDump ==
    /\ cl.pc = "opened"
    /\ output_file' = IF cl.fd = "target" THEN OkFile(cl.data) ELSE output_file
    /\ cl' = [cl EXCEPT !.pc = "done", !.fd = "closed"]
    /\ UNCHANGED <<temp_file, backup_dir, now, sv, saves, Rest>>

IdleCl == [pc |-> "off", data |-> <<>>, fd |-> "closed"]

(* ------------------- search_walmart_for_product ----------------------- *)

\* the worker threads of one run (num_workers, 2 unless given)
Workers == {1, 2}

\* Python's None where a record is expected
None == [none |-> TRUE]
\* None as a search result: the product was blocked
Blocked == None
\* the None that scrape_parallel puts on the product queue to stop a worker
StopSignal == "<stop>"

\* the spreadsheet's distinct product names, in order
Catalogue == <<"a", "b", "c", "d", "e", "f">>

\* exception messages with what the checks of line 429 find in their text
Messages == {[text |-> "timeout", has_session |-> FALSE, has_no_such_window |-> FALSE],
             [text |-> "invalid session id", has_session |-> TRUE, has_no_such_window |-> FALSE],
             [text |-> "no such window", has_session |-> FALSE, has_no_such_window |-> TRUE]}
NoMessage == [text |-> "", has_session |-> FALSE, has_no_such_window |-> FALSE]

\* what one resolution meets: search_products returns candidates with a match,
\* returns nothing usable, returns None (blocked), or an exception is raised
\* in search_walmart_for_product
Events == {[kind |-> k, msg |-> NoMessage] : k \in {"found", "empty", "blocked"}}
              \cup {[kind |-> "exception", msg |-> m] : m \in Messages}
NoEvent == [kind |-> "none", msg |-> NoMessage]

\* line 429: 'invalid session' in error_str or 'session' in error_str or 'no such window' in error_str
IsSessionError(m) == m.has_session \/ m.has_no_such_window

\* lines 433-441: the record returned for any other exception
ErrorRec(product_name, m) == [product_name |-> product_name, found |-> FALSE, tag |-> 0, error |-> m.text]

\* faulty variant: no exception is turned into a record
SearchResultBlocksOnError(product_name, ev) ==
    CASE ev.kind = "blocked" -> Blocked
      [] ev.kind = "exception" -> Blocked
      [] ev.kind = "empty" -> Rec(product_name, FALSE, 0)
      [] OTHER -> Rec(product_name, TRUE, 21)

\* search_walmart_for_product(scraper, product_name) of scrape_walmart_parallel.py
SearchResult(product_name, ev) ==
    CASE ev.kind = "blocked" -> Blocked
      [] ev.kind = "exception" ->
           IF IsSessionError(ev.msg) THEN Blocked ELSE ErrorRec(product_name, ev.msg)
      [] ev.kind = "empty" -> Rec(product_name, FALSE, 0)
      [] OTHER -> Rec(product_name, TRUE, 21)

(* --------------------------- worker_thread ---------------------------- *)

max_consecutive_blocks == 3

\* a worker before its first product.  Besides the locals, seen lists what
\* the worker has met so far: <<name, outcome>> per product, and a
\* "recreate" or "recreate_failed" entry for each attempt to recreate the browser
IdleWk == [pc |-> "get", product_name |-> NoName, event |-> NoEvent, result |-> None,
           consecutive_blocks |-> 0, driver |-> "none", seen |-> <<>>]
OffWk == [IdleWk EXCEPT !.pc = "off"]

\* faulty variant: the browser is recreated only after more than the threshold
TooManyBlocksLate(n) == n > max_consecutive_blocks

\* line 519: if consecutive_blocks >= max_consecutive_blocks
TooManyBlocks(n) == n >= max_consecutive_blocks

\* how the worker classes a result
Outcome(result) ==
    IF result = Blocked THEN "blocked"
    ELSE IF result.found THEN "found"
    ELSE IF "error" \in DOMAIN result THEN "error"
    ELSE "notfound"

\* faulty variant: the worker leaves its loop when a product was blocked
AfterResultStopsOnBlock(result) == IF result = Blocked THEN "exit" ELSE "finally"

\* every branch of the loop body ends in the finally block of line 582
AfterResult(result) == "finally"

\* faulty variant: the stop signal is taken for a product
IsStopSignalNever(product_name) == FALSE

\* line 506: if product_name is None
IsStopSignal(product_name) == product_name = StopSignal

\* faulty variant: every record is queued for saving
QueuesResultAlways(result) == TRUE

\* line 568: if result.get('found')
QueuesResult(result) == result.found

\* lines 499-507: product_queue.get; the stop signal ends the loop
Get(w) ==
    /\ wk[w].pc = "get"
    /\ product_queue # <<>>
    /\ wk' = [wk EXCEPT ![w] =
                IF IsStopSignal(Head(product_queue))
                THEN [wk[w] EXCEPT !.pc = "exit"]
                ELSE [wk[w] EXCEPT !.pc = "search", !.product_name = Head(product_queue)]]
    /\ product_queue' = Tail(product_queue)
    /\ UNCHANGED <<store, unfinished, result_queue, qm, mn, retry_queue, retry_file, sq, ms, sp>>

\* line 511: result = search_walmart_for_product(scraper, product_name)
Search(w) ==
    /\ wk[w].pc = "search"
    /\ \E ev \in Events :
         wk' = [wk EXCEPT ![w].event = ev,
                          ![w].result = SearchResult(wk[w].product_name, ev),
                          ![w].driver = IF ev.kind = "exception" THEN wk[w].driver ELSE "open",
                          ![w].pc = "handle"]
    /\ UNCHANGED <<store, product_queue, unfinished, result_queue, qm, mn, retry_queue, retry_file, sq, ms, sp>>

\* lines 513-574: a blocked product is counted and skipped, and the browser
\* is recreated after too many in a row (the counter is reset whether or not
\* that raised); any record resets the counter; a found record is queued
Handle(w) ==
    /\ wk[w].pc = "handle"
    /\ LET result == wk[w].result
           entry == <<wk[w].product_name, Outcome(result)>>
           counted == wk[w].consecutive_blocks + 1
       IN IF result = Blocked
          THEN /\ \E recreated \in BOOLEAN :
                    wk' = [wk EXCEPT ![w] =
                           IF TooManyBlocks(counted)
                           THEN [wk[w] EXCEPT !.consecutive_blocks = 0,
                                              !.driver = IF recreated THEN "open" ELSE "none",
                                              !.seen = wk[w].seen \o
                                                  <<entry, <<NoName, IF recreated THEN "recreate"
                                                                     ELSE "recreate_failed">>>>,
                                              !.pc = AfterResult(result)]
                           ELSE [wk[w] EXCEPT !.consecutive_blocks = counted,
                                              !.seen = Append(wk[w].seen, entry),
                                              !.pc = AfterResult(result)]]
               /\ UNCHANGED result_queue
          ELSE /\ wk' = [wk EXCEPT ![w].consecutive_blocks = 0,
                                   ![w].seen = Append(wk[w].seen, entry),
                                   ![w].pc = AfterResult(result)]
               /\ result_queue' = IF QueuesResult(result) THEN Append(result_queue, result)
                                  ELSE result_queue
    /\ UNCHANGED <<store, product_queue, unfinished, qm, mn, retry_queue, retry_file, sq, ms, sp>>

\* lines 582-586: product_queue.task_done() and the delay before the next product
TaskDone(w) ==
    /\ wk[w].pc = "finally"
    /\ unfinished' = unfinished - 1
    /\ wk' = [wk EXCEPT ![w].pc = "get", ![w].product_name = NoName,
                        ![w].event = NoEvent, ![w].result = None]
    /\ UNCHANGED <<store, product_queue, result_queue, qm, mn, retry_queue, retry_file, sq, ms, sp>>

WorkerStep(w) ==
    \/ Get(w)
    \/ Search(w)
    \/ Handle(w)
    \/ TaskDone(w)

(* ---------------------------- queue_manager --------------------------- *)

\* the buffer is flushed when it holds this many records (--flush-size)
flush_size == 2

\* the aggregator thread: its place in the loop, its buffer, where it goes
\* after the save it is in, and what the last pass through the loop met
\* ("item", "stop", "timeout", or "none" before the first)
IdleQm == [pc |-> "off", buffer |-> <<>>, then |-> "get", last |-> "none"]

\* faulty variant: the buffer is flushed only when it holds more than flush_size
FlushOnFullLate(buffer) == Len(buffer) > flush_size

\* line 473: if len(buffer) >= flush_size
FlushOnFull(buffer) == Len(buffer) >= flush_size

\* faulty variant: a timeout never flushes
FlushOnTimeoutNever(buffer) == FALSE

\* line 454: if buffer, after queue.get timed out
FlushOnTimeout(buffer) == buffer # <<>>

\* faulty variant: the stop signal ends the loop without a flush
FlushOnStopNever(buffer) == FALSE

\* line 463: if buffer, after the stop signal was taken
FlushOnStop(buffer) == buffer # <<>>

\* save_results_thread_safe(buffer, output_file) is entered by the aggregator
\* thread, which is process 1's saver
FlushCall(buffer) ==
    [sv EXCEPT ![1] = [IdleSv EXCEPT !.pc = "read1", !.results = buffer,
                                     !.calls = sv[1].calls + 1,
                                     !.file_at_call = output_file]]

\* lines 450-476 with an item on the queue: the stop signal flushes what is
\* left and ends the loop, a record is buffered and the full buffer flushed
QmGet ==
    /\ qm.pc = "get"
    /\ result_queue # <<>>
    /\ result_queue' = Tail(result_queue)
    /\ LET item == Head(result_queue)
           buffer == IF item = None THEN qm.buffer ELSE Append(qm.buffer, item)
           flush == IF item = None THEN FlushOnStop(buffer) ELSE FlushOnFull(buffer)
           then == IF item = None THEN "exit" ELSE "get"
       IN /\ qm' = [pc |-> IF flush THEN "saving" ELSE then, buffer |-> buffer, then |-> then,
                    last |-> IF item = None THEN "stop" ELSE "item"]
          /\ sv' = IF flush THEN FlushCall(buffer) ELSE sv
    /\ UNCHANGED <<output_file, temp_file, backup_dir, now, cl, saves>>
    /\ UNCHANGED <<product_queue, unfinished, wk, mn, retry_queue, retry_file, sq, ms, sp>>

\* lines 451-458: nothing arrived within the timeout; a buffer that is not
\* empty is flushed, and with an empty buffer the loop just goes round
QmTimeout ==
    /\ qm.pc = "get"
    /\ result_queue = <<>>
    /\ IF FlushOnTimeout(qm.buffer)
       THEN /\ qm' = [qm EXCEPT !.pc = "saving", !.then = "get", !.last = "timeout"]
            /\ sv' = FlushCall(qm.buffer)
       ELSE /\ qm' = [qm EXCEPT !.last = "timeout"]
            /\ sv' = sv
    /\ UNCHANGED <<output_file, temp_file, backup_dir, now, cl, saves>>
    /\ UNCHANGED <<product_queue, unfinished, result_queue, wk, mn, retry_queue, retry_file, sq, ms, sp>>

\* the save has returned: buffer = [], whatever the save did
QmAfterSave ==
    /\ qm.pc = "saving"
    /\ sv[1].pc = "idle"
    /\ qm' = [qm EXCEPT !.pc = qm.then, !.buffer = <<>>]
    /\ UNCHANGED <<store, product_queue, unfinished, result_queue, wk, mn, retry_queue, retry_file, sq, ms, sp>>

(* --------------------------- scrape_parallel -------------------------- *)

\* scrape_parallel before it has read anything: the spreadsheet's Product
\* column, and existing_results as loaded at line 616
OffSp == [column |-> <<>>, existing_results |-> <<>>]

\* lines 616-648: the names of the spreadsheet that the snapshot does not
\* hold yet are put on the product queue
ToProcess(names, file) == SelectSeq(names, LAMBDA n : n \notin NamesOf(file.products))

\* the values of the spreadsheet's Product column
ColumnNames == {"a", "b"}
\* most rows of the spreadsheet
MaxRows == 3

\* load_existing_results(output_file) as one step: the snapshot's products,
\* [] for a missing snapshot, the latest backup's products when the snapshot
\* is not JSON, [] after any other error
LoadExistingResults(file, dir) ==
    LET err == ReadError(file)
        clause == ExceptClause(err)
    IN CASE err = "none" -> file.products
         [] clause = "line 69" -> LatestBackupProducts(dir)
         [] OTHER -> <<>>

\* line 617: {p.get('product_name') for p in existing_results if p.get('product_name')}
ExistingProductNames(existing_results) ==
    {existing_results[i].product_name :
        i \in {j \in DOMAIN existing_results : existing_results[j].product_name # NoName}}

\* faulty variant: repeated names of the column are kept
UniqueKeepsAll(column) == column

\* line 632: df['Product'].unique().tolist(), each value once in the order
\* of its first appearance
RECURSIVE Unique(_)
Unique(column) ==
    IF column = <<>> THEN <<>>
    ELSE LET front == Unique(SubSeq(column, 1, Len(column) - 1))
             last == column[Len(column)]
         IN IF \E i \in DOMAIN front : front[i] = last THEN front ELSE Append(front, last)

\* lines 632-636: the distinct names that are not among the existing ones
ProductNames(column, existing_results) ==
    SelectSeq(Unique(column), LAMBDA p : p \notin ExistingProductNames(existing_results))

\* lines 616-661: scrape_parallel loads the existing results and the
\* spreadsheet, returns when nothing is left to process, and otherwise puts
\* the names on the product queue and starts the queue manager and the workers
MainStart ==
    /\ mn = "start"
    /\ LET existing_results == LoadExistingResults(output_file, backup_dir)
           product_names == ProductNames(sp.column, existing_results)
       IN /\ sp' = [sp EXCEPT !.existing_results = existing_results]
          /\ IF product_names = <<>>
             THEN /\ mn' = "returned"
                  /\ UNCHANGED <<product_queue, unfinished, wk, qm>>
             ELSE /\ product_queue' = product_names
                  /\ unfinished' = Len(product_names)
                  /\ qm' = [IdleQm EXCEPT !.pc = "get"]
                  /\ wk' = [w \in Workers |-> IdleWk]
                  /\ mn' = "join"
    /\ UNCHANGED <<store, result_queue, retry_queue, retry_file, sq, ms>>

\* faulty variant: the main thread does not wait for the products
JoinReturnsAtOnce == TRUE

\* line 668: product_queue.join() returns when no task is unfinished
JoinReturns == unfinished = 0

\* lines 668-676: product_queue.join() has returned; one stop signal per worker
MainStopWorkers ==
    /\ mn = "join"
    /\ JoinReturns
    /\ product_queue' = product_queue \o [i \in 1..Cardinality(Workers) |-> StopSignal]
    /\ unfinished' = unfinished + Cardinality(Workers)
    /\ mn' = "workers_signalled"
    /\ UNCHANGED <<store, result_queue, wk, qm, retry_queue, retry_file, sq, ms, sp>>

\* lines 679-684: the joins on the workers have returned or timed out; the
\* stop signal for the queue manager
MainStopManager ==
    /\ mn = "workers_signalled"
    /\ result_queue' = Append(result_queue, None)
    /\ mn' = "done"
    /\ UNCHANGED <<store, product_queue, unfinished, wk, qm, retry_queue, retry_file, sq, ms, sp>>

(* ------------------------ retry_queue_manager.py ---------------------- *)

MAX_RETRY_ATTEMPTS == 3

\* the products that can be blocked
RetryNames == {"a", "b"}

RetryFileMissing == [kind |-> "missing", products |-> <<>>]
RetryFileOk(q) == [kind |-> "ok", products |-> q]

\* retry_queue.get(product_name, 0)
Attempts(q, product_name) == IF product_name \in DOMAIN q THEN q[product_name] ELSE 0

\* load_retry_queue(): {} when the file is missing or cannot be loaded
LoadRetryQueue(file) == IF file.kind = "ok" THEN file.products ELSE <<>>

\* faulty variant: products at the cap are returned as well
GetRetryQueueProductsAll(q) == DOMAIN q

\* get_retry_queue_products(retry_queue), as the set of the names it lists
GetRetryQueueProducts(q) == {n \in DOMAIN q : q[n] < MAX_RETRY_ATTEMPTS}

\* faulty variant: the attempts are incremented at the cap too
AddedToRetryQueueUncapped(q, product_name) ==
    [n \in DOMAIN q \cup {product_name} |->
        IF n = product_name THEN Attempts(q, product_name) + 1 ELSE q[n]]

\* the queue after add_to_retry_queue(product_name, retry_queue, lock)
AddedToRetryQueue(q, product_name) ==
    IF Attempts(q, product_name) < MAX_RETRY_ATTEMPTS
    THEN [n \in DOMAIN q \cup {product_name} |->
            IF n = product_name THEN Attempts(q, product_name) + 1 ELSE q[n]]
    ELSE q

NotRetry == <<store, product_queue, unfinished, result_queue, wk, qm, mn, sq, ms, sp>>

add_to_retry_queue(product_name) ==
    /\ retry_queue' = AddedToRetryQueue(retry_queue, product_name)
    /\ UNCHANGED <<retry_file, NotRetry, sp>>

\* the queue after remove_from_retry_queue(product_name, retry_queue, lock)
RemovedFromRetryQueue(q, product_name) == [n \in DOMAIN q \ {product_name} |-> q[n]]

remove_from_retry_queue(product_name) ==
    /\ retry_queue' = RemovedFromRetryQueue(retry_queue, product_name)
    /\ UNCHANGED <<retry_file, NotRetry, sp>>

clear_retry_queue ==
    /\ retry_queue' = <<>>
    /\ UNCHANGED <<retry_file, NotRetry, sp>>

\* what open(RETRY_QUEUE_FILE, 'w') leaves when json.dump does not finish
RetryFileTruncated == [kind |-> "truncated", products |-> <<>>]

\* save_retry_queue(retry_queue): the one place that writes retry_queue.json.
\* The file is opened for writing in place; an exception is logged and
\* swallowed, before the open (file untouched) or after it (file truncated)
save_retry_queue ==
    /\ retry_file' \in {RetryFileOk(retry_queue), RetryFileTruncated, retry_file}
    /\ UNCHANGED <<retry_queue, NotRetry>>

\* the process is restarted: the in-memory queue is what load_retry_queue returns
Restart ==
    /\ retry_queue' = LoadRetryQueue(retry_file)
    /\ UNCHANGED <<retry_file, NotRetry, sp>>

(* ---------- scrape_walmart_from_spreadsheet.py, the sequential run ----- *)

\* search_walmart_for_product of scrape_walmart_from_spreadsheet.py:
\* `if not products` takes None (blocked) and an empty list alike
SeqSearchResult(product_name, ev) ==
    CASE ev.kind \in {"blocked", "empty"} -> Rec(product_name, FALSE, 0)
      [] ev.kind = "exception" -> ErrorRec(product_name, ev.msg)
      [] OTHER -> Rec(product_name, TRUE, 21)

\* locals of scrape_all_products_from_spreadsheet; blocked lists the names
\* whose search was blocked
OffSq == [pc |-> "off", product_names |-> <<>>, all_results |-> <<>>, blocked |-> {}]

\* lines 237-245: the next product is searched and its result replaces any
\* entry of that name in all_results
SeqSearch ==
    /\ sq.pc = "search"
    /\ sq.product_names # <<>>
    /\ \E ev \in Events :
         LET product_name == Head(sq.product_names)
             result == SeqSearchResult(product_name, ev)
             kept == SelectSeq(sq.all_results, LAMBDA r : r.product_name # product_name)
         IN sq' = [sq EXCEPT !.pc = "open", !.all_results = Append(kept, result),
                             !.blocked = IF ev.kind = "blocked" THEN sq.blocked \cup {product_name}
                                         ELSE sq.blocked]
    /\ UNCHANGED <<store, product_queue, unfinished, result_queue, wk, qm, mn, retry_queue, retry_file, ms, sp>>

\* save_to_output_file, line 137: open(output_file, 'w') truncates the snapshot
SeqOpen ==
    /\ sq.pc = "open"
    /\ output_file' = CorruptFile
    /\ sq' = [sq EXCEPT !.pc = "dump"]
    /\ UNCHANGED <<temp_file, backup_dir, now, sv, cl, saves>>
    /\ UNCHANGED <<product_queue, unfinished, result_queue, wk, qm, mn, retry_queue, retry_file, ms, sp>>

\* save_to_output_file, line 138: json.dump(output_data, f); then the next product
SeqDump ==
    /\ sq.pc = "dump"
    /\ output_file' = OkFile(sq.all_results)
    /\ sq' = [sq EXCEPT !.pc = "search", !.product_names = Tail(sq.product_names)]
    /\ UNCHANGED <<temp_file, backup_dir, now, sv, cl, saves>>
    /\ UNCHANGED <<product_queue, unfinished, result_queue, wk, qm, mn, retry_queue, retry_file, ms, sp>>

(* --------- search_walmart_for_product: choosing the best match -------- *)

\* Names are sequences of characters, so that lower(), split() and the
\* substring test `term in product_name_lower` are computed on them.
UpperCase == <<"A", "B", "C", "D", "E", "F", "G", "H", "I", "J", "K", "L", "M",
               "N", "O", "P", "Q", "R", "S", "T", "U", "V", "W", "X", "Y", "Z">>
LowerCase == <<"a", "b", "c", "d", "e", "f", "g", "h", "i", "j", "k", "l", "m",
               "n", "o", "p", "q", "r", "s", "t", "u", "v", "w", "x", "y", "z">>

\* the lower-case letter of each upper-case letter
LowerOf ==
    [c \in {UpperCase[i] : i \in DOMAIN UpperCase} |->
        LowerCase[CHOOSE i \in DOMAIN UpperCase : UpperCase[i] = c]]

LowerChar(c) == IF c \in DOMAIN LowerOf THEN LowerOf[c] ELSE c

\* str.lower()
Lower(s) == [i \in DOMAIN s |-> LowerChar(s[i])]

RECURSIVE Strip(_)
\* str.strip()
Strip(s) ==
    IF s = <<>> THEN s
    ELSE IF Head(s) = " " THEN Strip(Tail(s))
    ELSE IF s[Len(s)] = " " THEN Strip(SubSeq(s, 1, Len(s) - 1))
    ELSE s

RECURSIVE Split(_)
\* str.split(): the words between runs of blanks
Split(s) ==
    IF s = <<>> THEN <<>>
    ELSE IF Head(s) = " " THEN Split(Tail(s))
    ELSE LET end == CHOOSE k \in 1..(Len(s) + 1) :
                        /\ k = Len(s) + 1 \/ s[k] = " "
                        /\ \A j \in 1..(k - 1) : s[j] # " "
         IN <<SubSeq(s, 1, end - 1)>> \o Split(SubSeq(s, end, Len(s)))

\* sub in s
Contains(sub, s) ==
    \E i \in 0..(Len(s) - Len(sub)) : \A k \in 1..Len(sub) : s[i + k] = sub[k]

\* lines 272-275: the words longer than two characters, and the whole
\* phrase when it is longer than three
SearchTerms(product_name) ==
    LET words == SelectSeq(Split(product_name), LAMBDA t : Len(t) > 2)
        terms == [i \in DOMAIN words |-> Strip(Lower(words[i]))]
    IN IF Len(product_name) > 3 THEN Append(terms, Strip(Lower(product_name))) ELSE terms

\* faulty variant: every term found in the name is counted
MatchingTermsAny(search_terms, product_name_lower) ==
    Cardinality({i \in DOMAIN search_terms : Contains(search_terms[i], product_name_lower)})

\* line 288: the terms longer than three characters found in the name
MatchingTerms(search_terms, product_name_lower) ==
    Cardinality({i \in DOMAIN search_terms :
                    Contains(search_terms[i], product_name_lower) /\ Len(search_terms[i]) > 3})

\* lines 293-299: at least 60% of the words longer than three characters
\* of the searched name appear in the candidate's name
FullPhraseMatch(product_name, product_name_lower) ==
    /\ Len(product_name) > 5
    /\ LET main_words == SelectSeq(Split(Lower(product_name)), LAMBDA w : Len(w) > 3)
           main_words_in_product ==
               Cardinality({i \in DOMAIN main_words : Contains(main_words[i], product_name_lower)})
       IN /\ main_words # <<>>
          /\ 10 * main_words_in_product >= 6 * Len(main_words)

\* Match ratios are kept as whole numbers: a ratio r is held as
\* r * RatioUnit(search_terms), so that 0.8 is 8 * Len(search_terms) and the
\* quotient matching_terms / len(search_terms) is 10 * matching_terms.
RatioUnit(search_terms) == 10 * Len(search_terms)

\* lines 288-300: the share of matching terms, raised to 0.8 by a full phrase match
MatchRatio(product_name, product_name_lower) ==
    LET search_terms == SearchTerms(product_name)
        share == 10 * MatchingTerms(search_terms, product_name_lower)
    IN IF FullPhraseMatch(product_name, product_name_lower) /\ share < 8 * Len(search_terms)
       THEN 8 * Len(search_terms)
       ELSE share

\* line 304: the test that accepts a candidate
Accepts(product_name, product_name_lower) ==
    LET search_terms == SearchTerms(product_name)
    IN \/ search_terms # <<>>
            /\ MatchRatio(product_name, product_name_lower) >= 2 * Len(search_terms)
       \/ FullPhraseMatch(product_name, product_name_lower)
       \/ MatchingTerms(search_terms, product_name_lower) > 0
       \/ \E i \in DOMAIN search_terms :
              Contains(search_terms[i], product_name_lower) /\ Len(search_terms[i]) > 2

\* a candidate without a price has price None
NoPrice == 0
\* float('inf'); the scraper keeps prices up to 1000 dollars, held here in cents
Infinity == 1000000

\* faulty variant: the dearest candidate sorts first
PriceKeyDearest(price) == IF price = NoPrice THEN Infinity ELSE 0 - price

\* line 305: product.price or float('inf')
PriceKey(price) == IF price = NoPrice THEN Infinity ELSE price

UnknownProduct == <<"U", "n", "k", "n", "o", "w", "n", " ", "P", "r", "o", "d", "u", "c", "t">>

\* lines 279-308: the accepted candidates in the order of the search result,
\* each with its place in that result, its match ratio and its price key
MatchingProducts(product_name, products) ==
    LET accepted == {i \in DOMAIN products :
                        /\ products[i].name # <<>>
                        /\ products[i].name # UnknownProduct
                        /\ Accepts(product_name, Lower(products[i].name))}
        entry(i) == [index |-> i,
                     match_ratio |-> MatchRatio(product_name, Lower(products[i].name)),
                     price |-> PriceKey(products[i].price)]
        all == [i \in DOMAIN products |-> entry(i)]
    IN SelectSeq(all, LAMBDA x : x.index \in accepted)

\* list.sort(key=...): keys[i] is the key of s[i]; ascending by key, equal
\* keys in their earlier order
SortedByKey(s, keys) ==
    LET place(i) == 1 + Cardinality({j \in DOMAIN s :
                                        \/ keys[j] < keys[i]
                                        \/ keys[j] = keys[i] /\ j < i})
    IN [p \in DOMAIN s |-> s[CHOOSE i \in DOMAIN s : place(i) = p]]

\* line 331: key=lambda x: (-x[1], x[2]), as one number
RatioThenPrice(x) == (0 - x.match_ratio) * (Infinity + 1) + x.price

\* faulty variant: every accepted candidate counts as a similar match
SameRatioAll(x, match_ratio, unit) == TRUE

\* line 338: abs(p[1] - match_ratio) < 0.1
SameRatio(x, match_ratio, unit) ==
    LET d == x.match_ratio - match_ratio
    IN 10 * (IF d < 0 THEN 0 - d ELSE d) < unit

\* faulty variant: the last candidate of the search result is the fallback
FirstResultLast(products) == Len(products)

\* line 316: best_product = products[0]
FirstResult(products) == 1

\* lines 333-343: the cheapest of the candidates whose ratio is within 0.1
\* of the first of the sorted list, or that first when it is alone
CheapestSameRatio(sorted, unit) ==
    LET same_ratio_products ==
            SelectSeq(sorted, LAMBDA p : SameRatio(p, sorted[1].match_ratio, unit))
    IN IF Len(same_ratio_products) > 1
       THEN SortedByKey(same_ratio_products,
                        [i \in DOMAIN same_ratio_products |->
                            same_ratio_products[i].price])[1].index
       ELSE sorted[1].index

\* lines 312-331: the first search result when nothing was accepted,
\* otherwise the accepted candidates sorted by ratio and price
BestOfMatching(matching_products, unit, products) ==
    IF matching_products = <<>>
    THEN FirstResult(products)
    ELSE CheapestSameRatio(SortedByKey(matching_products,
                                       [i \in DOMAIN matching_products |->
                                           RatioThenPrice(matching_products[i])]),
                           unit)

\* lines 279-343: the place in the search result of the chosen candidate
\* (products is not empty)
BestProduct(product_name, products) ==
    BestOfMatching(MatchingProducts(product_name, products),
                   RatioUnit(SearchTerms(product_name)), products)

\* faulty variant: a search without candidates is reported as found
NotFoundRecAsFound(product_name) ==
    [product_name |-> product_name, found |-> TRUE, walmart_price |-> NoPrice,
     walmart_product_name |-> <<>>]

\* lines 258-265: the record for a search without candidates
NotFoundRec(product_name) ==
    [product_name |-> product_name, found |-> FALSE, walmart_price |-> NoPrice,
     walmart_product_name |-> <<>>]

\* lines 393-421: the record built from the chosen product
ResultDict(product_name, best_product) ==
    IF best_product.name = <<>> \/ best_product.name = UnknownProduct \/ Len(best_product.name) < 2
    THEN NotFoundRec(product_name)
    ELSE [product_name |-> product_name, found |-> TRUE,
          walmart_price |-> best_product.price, walmart_product_name |-> best_product.name]

(* the searches and candidates the selection is run on *)

MilkTarget == <<"M", "i", "l", "k", " ", "2", "L", " ", "N", "e", "s", "t", "l", "e">>
BreadTarget == <<"B", "r", "e", "a", "d", " ", "W", "h", "i", "t", "e">>
SoapTarget == <<"S", "o", "a", "p">>
TeaTarget == <<"R", "e", "d", " ", "T", "e", "a">>
Targets == {MilkTarget, BreadTarget, SoapTarget}

\* a candidate of the search result: name, price in cents (NoPrice for
\* None) and product URL
Candidate(name, price, product_url) == [name |-> name, price |-> price, product_url |-> product_url]

NestleTwoPercent == Candidate(<<"N", "e", "s", "t", "l", "e", " ", "2", "%", " ", "M", "i", "l", "k", " ", "2", "L">>, 499, "u1")
GenericSoap == Candidate(<<"G", "e", "n", "e", "r", "i", "c", " ", "S", "o", "a", "p">>, 100, "u2")
NestleCarton == Candidate(<<"N", "e", "s", "t", "l", "e", " ", "M", "i", "l", "k", " ", "2", "L", " ", "C", "a", "r", "t", "o", "n">>, 349, "u3")
MilkExact == Candidate(<<"M", "i", "l", "k", " ", "2", "L", " ", "N", "e", "s", "t", "l", "e", " ", "4", "x">>, 599, "u4")
MilkUnpriced == Candidate(<<"M", "i", "l", "k", " ", "2", "L", " ", "N", "e", "s", "t", "l", "e">>, NoPrice, "u5")
MilkOnly == Candidate(<<"M", "i", "l", "k">>, NoPrice, "u6")
GreenTea == Candidate(<<"G", "r", "e", "e", "n", " ", "T", "e", "a">>, 250, "u8")
\* a search result without a product URL
NestleNoUrl == Candidate(<<"N", "e", "s", "t", "l", "e", " ", "M", "i", "l", "k">>, 199, "")
CandidatePool == {NestleTwoPercent, GenericSoap, NestleCarton, MilkExact, MilkUnpriced, MilkOnly}

\* the searches and candidates the details step is run on
DetailTargets == {MilkTarget, TeaTarget}
DetailPool == {NestleCarton, MilkUnpriced, GreenTea, NestleNoUrl}

\* longest search result of those runs
MaxResults == 2

\* longest search result
MaxCandidates == 3

\* what get_product_details can give for the chosen product: it raises,
\* returns None on a blocked page or on another page, or returns a product
DetailedProduct == Candidate(<<"N", "e", "s", "t", "l", "e", " ", "M", "i", "l", "k", " ", "2", "L", " ", "C", "a", "r", "t", "o", "n", " ", "6", " ", "p", "a", "c", "k">>, 279, "u7")
DetailOutcomes == {"raised", "blocked", "none", "detailed", "detailed_unpriced", "unknown", "price_only", "invalid"}

\* line 352: the value of detailed (None when there is none)
Detailed(outcome) ==
    CASE outcome = "detailed" -> DetailedProduct
      [] outcome = "detailed_unpriced" -> [DetailedProduct EXCEPT !.price = NoPrice]
      [] outcome = "unknown" -> [DetailedProduct EXCEPT !.name = UnknownProduct]
      [] outcome = "price_only" -> Candidate(<<>>, DetailedProduct.price, "u7")
      [] outcome = "invalid" -> Candidate(<<>>, NoPrice, "u7")
      [] OTHER -> None

\* locals of one call of search_walmart_for_product: the searched name, the
\* list search_products returned, search_terms, matching_terms of each candidate, the
\* place of the chosen candidate in the list, best_product, the calls of
\* get_product_details and what the last one did, and the return value
OffMs == [pc |-> "off", product_name |-> <<>>, products |-> <<>>,
          search_terms |-> <<>>, matching_terms |-> <<>>,
          best_index |-> 0, best_product |-> Candidate(<<>>, NoPrice, ""),
          details_fetched |-> FALSE, detail_fetches |-> 0, outcome |-> "", result |-> None]

\* lines 254-343: no candidates gives the not-found record at once;
\* otherwise the ratios are computed and the best match is chosen
MatchSelect ==
    /\ ms.pc = "select"
    /\ ms' = IF ms.products = <<>>
             THEN [ms EXCEPT !.pc = "done", !.result = NotFoundRec(ms.product_name)]
             ELSE LET best == BestProduct(ms.product_name, ms.products)
                  IN [ms EXCEPT !.pc = "details", !.best_index = best,
                                !.best_product = ms.products[best],
                                !.search_terms = SearchTerms(ms.product_name),
                                !.matching_terms =
                                    [i \in DOMAIN ms.products |->
                                        MatchingTerms(SearchTerms(ms.product_name),
                                                      Lower(ms.products[i].name))]]
    /\ UNCHANGED <<store, product_queue, unfinished, result_queue, wk, qm, mn, retry_queue, retry_file, sq, sp>>

\* faulty variant: an exception of the details page ends the call like a block
AfterDetailsRaises(best_product, outcome) ==
    IF outcome \in {"raised", "blocked"} THEN None
    ELSE IF outcome = "none" THEN best_product
    ELSE Detailed(outcome)

\* lines 352-391: what the details page does to best_product; None stands
\* for the return None of line 361
AfterDetails(best_product, outcome) ==
    LET detailed == Detailed(outcome)
    IN IF outcome = "raised" THEN best_product
       ELSE IF outcome = "blocked" THEN None
       ELSE IF detailed = None THEN best_product
       ELSE IF detailed.name # <<>> /\ detailed.name # UnknownProduct /\ Len(detailed.name) > 3
            THEN detailed
       ELSE IF detailed.name # <<>> /\ Len(detailed.name) > 3 THEN detailed
       ELSE IF detailed.price # NoPrice THEN [best_product EXCEPT !.price = detailed.price]
       ELSE best_product

\* faulty variant: the details page is fetched for every chosen product
HasProductUrlAlways(best_product) == TRUE

\* line 347: if best_product.product_url
HasProductUrl(best_product) == best_product.product_url # ""

\* lines 345-421: the details page is fetched when the chosen product has a
\* URL, and the record is built from what is then best_product
MatchDetails ==
    /\ ms.pc = "details"
    /\ IF HasProductUrl(ms.best_product)
       THEN \E outcome \in DetailOutcomes :
              LET best_product == AfterDetails(ms.best_product, outcome)
              IN ms' = [ms EXCEPT !.pc = "done", !.details_fetched = TRUE,
                                  !.detail_fetches = @ + 1, !.outcome = outcome,
                                  !.best_product = IF best_product = None THEN @ ELSE best_product,
                                  !.result = IF best_product = None THEN Blocked
                                             ELSE ResultDict(ms.product_name, best_product)]
       ELSE ms' = [ms EXCEPT !.pc = "done",
                             !.result = ResultDict(ms.product_name, ms.best_product)]
    /\ UNCHANGED <<store, product_queue, unfinished, result_queue, wk, qm, mn, retry_queue, retry_file, sq, sp>>

\* no worker pool, no retry queue and no sequential run
PipelineOff ==
    /\ product_queue = <<>>
    /\ unfinished = 0
    /\ result_queue = <<>>
    /\ wk = [w \in Workers |-> OffWk]
    /\ qm = IdleQm
    /\ mn = "off"
    /\ retry_queue = <<>>
    /\ retry_file = RetryFileMissing
    /\ sq = OffSq
    /\ ms = OffMs
    /\ sp = OffSp


(* --------------- one scraper process, which may be killed ------------- *)

Init ==
    /\ output_file \in InitFiles
    /\ temp_file = MissingFile
    /\ backup_dir \in InitBackups
    /\ now = 0
    /\ sv = [p \in Procs |-> IF p = 1 THEN IdleSv ELSE OffSv]
    /\ cl = IdleCl
    /\ saves = 0
    /\ PipelineOff

Next ==
    \/ \E p \in Procs : Call(p)
    \/ \E p \in Procs : CallAgain(p)
    \/ \E p \in Procs : SaveStep(p)
    \/ \E p \in Procs : Interrupt(p)
    \/ Tick

Spec == Init /\ [][Next]_vars

(* ------- one scraper process and the cleanup script, concurrently ----- *)

InitRace ==
    /\ output_file \in InitFiles
    /\ temp_file = MissingFile
    /\ backup_dir \in InitBackups
    /\ now = 0
    /\ sv = [p \in Procs |-> IF p = 1 THEN IdleSv ELSE OffSv]
    /\ cl = [IdleCl EXCEPT !.pc = "start"]
    /\ saves = 0
    /\ PipelineOff

NextRace ==
    \/ \E p \in Procs : Call(p)
    \/ \E p \in Procs : SaveStep(p)
    \/ CleanupRead
    \/ CleanupOpen
    \/ CleanupDump
    \/ Tick

SpecRace == InitRace /\ [][NextRace]_vars

(* ------------- two scraper processes sharing one snapshot ------------- *)

InitTwo ==
    /\ output_file \in {MissingFile, OkFile(<<Rec("a", TRUE, 1)>>)}
    /\ temp_file = MissingFile
    /\ backup_dir = <<>>
    /\ now = 0
    /\ sv = [p \in Procs |-> IdleSv]
    /\ cl = IdleCl
    /\ saves = 0
    /\ PipelineOff

NextTwo ==
    \/ \E p \in Procs : Call(p)
    \/ \E p \in Procs : SaveStep(p)
    \/ Tick

SpecTwo == InitTwo /\ [][NextTwo]_vars

(* --------- two threads of one process calling the save function ------- *)

\* a thread is inside the with json_lock block of save_results_thread_safe
\* (line 143) from its call until the function has returned
InsideSave(t) == sv[t].pc \notin {"idle", "off"}

\* faulty variant: the function body is entered without the lock
JsonLockFreeAlways(t) == TRUE

\* json_lock (line 27) can be acquired: no other thread of the process is inside the block
JsonLockFree(t) == \A u \in Procs \ {t} : ~InsideSave(u)

\* a thread calls save_results_thread_safe and waits at line 143 for the lock
ThreadCall(t) ==
    /\ JsonLockFree(t)
    /\ Call(t)

\* as InitTwo, but the two savers are threads of one process, sharing json_lock
InitThreads ==
    /\ output_file \in {MissingFile, OkFile(<<Rec("a", TRUE, 1)>>)}
    /\ temp_file = MissingFile
    /\ backup_dir = <<>>
    /\ now = 0
    /\ sv = [p \in Procs |-> IdleSv]
    /\ cl = IdleCl
    /\ saves = 0
    /\ PipelineOff

NextThreads ==
    \/ \E t \in Procs : ThreadCall(t)
    \/ \E t \in Procs : SaveStep(t)
    \/ Tick

SpecThreads == InitThreads /\ [][NextThreads]_vars

(* ------------- successive saves to a populated snapshot --------------- *)

RotationBatch == <<Rec("a", TRUE, 11)>>

InitRotation ==
    /\ output_file = OkFile(<<Rec("a", TRUE, 1)>>)
    /\ temp_file = MissingFile
    /\ backup_dir = <<>>
    /\ now = 0
    /\ sv = [p \in Procs |-> IF p = 1 THEN IdleSv ELSE OffSv]
    /\ cl = IdleCl
    /\ saves = 0
    /\ PipelineOff

\* the next of the successive saves
CallNext(p) ==
    /\ sv[p].pc = "idle"
    /\ saves < SavesClaimed
    /\ sv' = [sv EXCEPT ![p] = [IdleSv EXCEPT !.pc = "read1", !.results = RotationBatch,
                                              !.calls = sv[p].calls + 1,
                                              !.file_at_call = output_file]]
    /\ UNCHANGED <<output_file, temp_file, backup_dir, now, Others>>

\* the clock moves on by a second between one backup and the next, or does not
TickOnce(p) ==
    /\ sv[p].pc = "backup"
    /\ ~sv[p].ticked
    /\ now' = now + 1
    /\ sv' = [sv EXCEPT ![p].ticked = TRUE]
    /\ UNCHANGED <<output_file, temp_file, backup_dir, Others>>

NextRotation ==
    \/ \E p \in Procs : CallNext(p)
    \/ \E p \in Procs : SaveStep(p)
    \/ \E p \in Procs : TickOnce(p)

SpecRotation == InitRotation /\ [][NextRotation]_vars

(* ------------- the worker pool of one run of scrape_parallel ---------- *)

\* most products one run is given
MaxProducts == 3

InitPool ==
    /\ output_file \in {MissingFile, OkFile(<<Rec("a", TRUE, 1)>>)}
    /\ temp_file = MissingFile
    /\ backup_dir = <<>>
    /\ now = 0
    /\ sv = [p \in Procs |-> IF p = 1 THEN IdleSv ELSE OffSv]
    /\ cl = IdleCl
    /\ saves = 0
    /\ \E n \in 1..MaxProducts :
         product_queue = ToProcess(SubSeq(Catalogue, 1, n), output_file)
    /\ product_queue # <<>>
    /\ unfinished = Len(product_queue)
    /\ result_queue = <<>>
    /\ wk = [w \in Workers |-> IdleWk]
    /\ qm = [IdleQm EXCEPT !.pc = "get"]
    /\ mn = "join"
    /\ retry_queue = <<>>
    /\ retry_file = RetryFileMissing
    /\ sq = OffSq
    /\ ms = OffMs
    /\ sp = OffSp

NextPool ==
    \/ \E w \in Workers : WorkerStep(w)
    \/ QmGet
    \/ QmTimeout
    \/ QmAfterSave
    \/ \E p \in Procs : SaveStep(p)
    \/ MainStopWorkers
    \/ MainStopManager

SpecPool == InitPool /\ [][NextPool]_vars

(* ---- the worker pool while remove_not_found_products.py is run ------- *)

\* one run of scrape_parallel on a snapshot that holds a record, with the
\* cleanup script started on the same snapshot
InitPoolCleanup ==
    /\ output_file = OkFile(<<Rec("a", TRUE, 1)>>)
    /\ temp_file = MissingFile
    /\ backup_dir = <<>>
    /\ now = 0
    /\ sv = [p \in Procs |-> IF p = 1 THEN IdleSv ELSE OffSv]
    /\ cl = [IdleCl EXCEPT !.pc = "start"]
    /\ saves = 0
    /\ \E n \in 2..MaxProducts :
         product_queue = ToProcess(SubSeq(Catalogue, 1, n), output_file)
    /\ unfinished = Len(product_queue)
    /\ result_queue = <<>>
    /\ wk = [w \in Workers |-> IdleWk]
    /\ qm = [IdleQm EXCEPT !.pc = "get"]
    /\ mn = "join"
    /\ retry_queue = <<>>
    /\ retry_file = RetryFileMissing
    /\ sq = OffSq
    /\ ms = OffMs
    /\ sp = OffSp

NextPoolCleanup ==
    \/ \E w \in Workers : WorkerStep(w)
    \/ QmGet
    \/ QmTimeout
    \/ QmAfterSave
    \/ \E p \in Procs : SaveStep(p)
    \/ MainStopWorkers
    \/ MainStopManager
    \/ CleanupRead
    \/ CleanupOpen
    \/ CleanupDump

SpecPoolCleanup == InitPoolCleanup /\ [][NextPoolCleanup]_vars

(* ------------- one run of scrape_parallel from its start -------------- *)

\* what a run may find: no snapshot, a snapshot with a record, or a snapshot
\* that is not JSON beside a backup with a record
StartUps == {[output_file |-> MissingFile, backup_dir |-> <<>>],
             [output_file |-> OkFile(<<Rec("a", TRUE, 1)>>), backup_dir |-> <<>>],
             [output_file |-> CorruptFile,
              backup_dir |-> [t \in {0} |-> OkFile(<<Rec("b", TRUE, 9)>>)]]}

InitStartup ==
    /\ \E s \in StartUps : output_file = s.output_file /\ backup_dir = s.backup_dir
    /\ temp_file = MissingFile
    /\ now = 0
    /\ sv = [p \in Procs |-> IF p = 1 THEN IdleSv ELSE OffSv]
    /\ cl = IdleCl
    /\ saves = 0
    /\ product_queue = <<>>
    /\ unfinished = 0
    /\ result_queue = <<>>
    /\ wk = [w \in Workers |-> OffWk]
    /\ qm = IdleQm
    /\ mn = "start"
    /\ retry_queue = <<>>
    /\ retry_file = RetryFileMissing
    /\ sq = OffSq
    /\ ms = OffMs
    /\ \E column \in SeqsUpTo(ColumnNames, MaxRows) : sp = [OffSp EXCEPT !.column = column]

NextStartup ==
    \/ MainStart
    \/ \E w \in Workers : WorkerStep(w)
    \/ QmGet
    \/ QmTimeout
    \/ QmAfterSave
    \/ \E p \in Procs : SaveStep(p)
    \/ MainStopWorkers
    \/ MainStopManager

SpecStartup == InitStartup /\ [][NextStartup]_vars

(* ------- the workers and the main thread, scheduled fairly ------------ *)

\* the workers never wait for the queue manager (result_queue is unbounded),
\* so their progress is studied without it
InitWorkers ==
    /\ output_file \in {MissingFile, OkFile(<<Rec("a", TRUE, 1)>>)}
    /\ temp_file = MissingFile
    /\ backup_dir = <<>>
    /\ now = 0
    /\ sv = [p \in Procs |-> OffSv]
    /\ cl = IdleCl
    /\ saves = 0
    /\ \E n \in 1..MaxProducts :
         product_queue = ToProcess(SubSeq(Catalogue, 1, n), output_file)
    /\ product_queue # <<>>
    /\ unfinished = Len(product_queue)
    /\ result_queue = <<>>
    /\ wk = [w \in Workers |-> IdleWk]
    /\ qm = IdleQm
    /\ mn = "join"
    /\ retry_queue = <<>>
    /\ retry_file = RetryFileMissing
    /\ sq = OffSq
    /\ ms = OffMs
    /\ sp = OffSp

NextWorkers ==
    \/ \E w \in Workers : WorkerStep(w)
    \/ MainStopWorkers
    \/ MainStopManager

\* every thread that can take a step eventually takes one
SpecWorkersFair ==
    /\ InitWorkers
    /\ [][NextWorkers]_vars
    /\ \A w \in Workers : WF_vars(WorkerStep(w))
    /\ WF_vars(MainStopWorkers \/ MainStopManager)

(* ------------------- the retry queue and its file --------------------- *)

InitRetry ==
    /\ output_file = MissingFile
    /\ temp_file = MissingFile
    /\ backup_dir = <<>>
    /\ now = 0
    /\ sv = [p \in Procs |-> OffSv]
    /\ cl = IdleCl
    /\ saves = 0
    /\ product_queue = <<>>
    /\ unfinished = 0
    /\ result_queue = <<>>
    /\ wk = [w \in Workers |-> OffWk]
    /\ qm = IdleQm
    /\ mn = "off"
    /\ retry_queue = <<>>
    /\ retry_file = RetryFileMissing
    /\ sq = OffSq
    /\ ms = OffMs
    /\ sp = OffSp

NextRetry ==
    \/ \E n \in RetryNames : add_to_retry_queue(n)
    \/ \E n \in RetryNames : remove_from_retry_queue(n)
    \/ clear_retry_queue
    \/ save_retry_queue
    \/ Restart

SpecRetry == InitRetry /\ [][NextRetry]_vars

(* ------------------------ the sequential run -------------------------- *)

InitSeq ==
    /\ output_file \in {MissingFile, OkFile(<<Rec("a", TRUE, 1)>>)}
    /\ temp_file = MissingFile
    /\ backup_dir = <<>>
    /\ now = 0
    /\ sv = [p \in Procs |-> OffSv]
    /\ cl = IdleCl
    /\ saves = 0
    /\ product_queue = <<>>
    /\ unfinished = 0
    /\ result_queue = <<>>
    /\ wk = [w \in Workers |-> OffWk]
    /\ qm = IdleQm
    /\ mn = "off"
    /\ retry_queue = <<>>
    /\ retry_file = RetryFileMissing
    /\ \E n \in 1..MaxProducts :
         sq = [OffSq EXCEPT !.pc = "search",
                            !.product_names = ToProcess(SubSeq(Catalogue, 1, n), output_file),
                            !.all_results = output_file.products]
    /\ ms = OffMs
    /\ sp = OffSp

NextSeq ==
    \/ SeqSearch
    \/ SeqOpen
    \/ SeqDump

SpecSeq == InitSeq /\ [][NextSeq]_vars

(* ------------- one call of search_walmart_for_product ----------------- *)

InitMatch ==
    /\ output_file = MissingFile
    /\ temp_file = MissingFile
    /\ backup_dir = <<>>
    /\ now = 0
    /\ sv = [p \in Procs |-> OffSv]
    /\ cl = IdleCl
    /\ saves = 0
    /\ product_queue = <<>>
    /\ unfinished = 0
    /\ result_queue = <<>>
    /\ wk = [w \in Workers |-> OffWk]
    /\ qm = IdleQm
    /\ mn = "off"
    /\ retry_queue = <<>>
    /\ retry_file = RetryFileMissing
    /\ sq = OffSq
    /\ sp = OffSp
    /\ \E product_name \in Targets, products \in SeqsUpTo(CandidatePool, MaxCandidates) :
         ms = [OffMs EXCEPT !.pc = "select", !.product_name = product_name,
                            !.products = products]

InitDetails ==
    /\ output_file = MissingFile
    /\ temp_file = MissingFile
    /\ backup_dir = <<>>
    /\ now = 0
    /\ sv = [p \in Procs |-> OffSv]
    /\ cl = IdleCl
    /\ saves = 0
    /\ product_queue = <<>>
    /\ unfinished = 0
    /\ result_queue = <<>>
    /\ wk = [w \in Workers |-> OffWk]
    /\ qm = IdleQm
    /\ mn = "off"
    /\ retry_queue = <<>>
    /\ retry_file = RetryFileMissing
    /\ sq = OffSq
    /\ sp = OffSp
    /\ \E product_name \in DetailTargets, products \in SeqsUpTo(DetailPool, MaxResults) :
         ms = [OffMs EXCEPT !.pc = "select", !.product_name = product_name,
                            !.products = products]

NextMatch ==
    \/ MatchSelect
    \/ MatchDetails

SpecMatch == InitMatch /\ [][NextMatch]_vars

SpecDetails == InitDetails /\ [][NextMatch]_vars

(* ------------------------------ claims -------------------------------- *)

\* number of records a reader finds in the snapshot
Count(f) == Len(f.products)
\* the product names of a batch that the merge takes up
BatchNames(b) == NamesOf(b) \ {NoName}
Wrote(p) == sv[p].pc = "done" /\ sv[p].outcome = "wrote"

\* C1: after each save call the snapshot holds at least as many records as
\* it held before that call.
C1_CountNeverDecreases ==
    \A p \in Procs : sv[p].pc = "done" => Count(output_file) >= Count(sv[p].file_at_call)

\* C2: during a call and after it was interrupted at any step, the snapshot
\* path holds the complete content from before the call or the complete
\* merged content, never anything else.
C2_OldOrNewSnapshot ==
    \A p \in Procs :
        (sv[p].pc \notin {"idle", "off"} \/ sv[p].outcome = "killed") =>
            \/ output_file = sv[p].file_at_call
            \/ sv[p].merged /\ output_file = OkFile(sv[p].all_results)

\* the call was killed while the temporary file was half written
C2_Witness ==
    \E p \in Procs :
        /\ sv[p].outcome = "killed" /\ sv[p].merged
        /\ temp_file = CorruptFile
        /\ Count(output_file) > 0 /\ output_file = sv[p].file_at_call

\* C3: when two processes have both completed a save on the shared
\* snapshot, it holds a record for every name of both batches and for every
\* name it held before.
C3_NoLostUpdate ==
    (\A p \in Procs : sv[p].pc = "done") =>
        /\ \A p \in Procs : BatchNames(sv[p].results) \subseteq NamesOf(output_file.products)
        /\ \A n \in AllNames :
             (\A p \in Procs : n \in NamesOf(sv[p].file_at_call.products))
                 => n \in NamesOf(output_file.products)

\* C4: after a save that wrote, no two records of the snapshot have the
\* same product_name.
C4_UniqueNames ==
    \A p \in Procs : Wrote(p) => NoDuplicates(output_file.products)

\* the snapshot and the batch both repeated a name
C4_Witness ==
    \E p \in Procs :
        /\ Wrote(p)
        /\ ~NoDuplicates(sv[p].file_at_call.products)
        /\ ~NoDuplicates(sv[p].results)

\* the snapshot's records named n are exactly the one record r
HoldsJust(n, r) == {x \in Range(output_file.products) : x.product_name = n} = {r}

\* C5 as stated: after a save that wrote, each name of the batch has the
\* last batch record of that name, and every record stored before whose
\* name is not in the batch is still in the snapshot.
C5_EveryStoredRecordKept ==
    \A p \in Procs :
        Wrote(p) =>
            /\ \A n \in BatchNames(sv[p].results) : HoldsJust(n, LastOf(sv[p].results, n))
            /\ \A r \in Range(sv[p].file_at_call.products) :
                 r.product_name \notin BatchNames(sv[p].results)
                     => r \in Range(output_file.products)

\* C5 amended: after a save that wrote, each name of the batch has the last
\* batch record of that name, and each other name stored before has the
\* last record stored under it (earlier records of that name are dropped).
C5_LastStoredRecordKept ==
    \A p \in Procs :
        Wrote(p) =>
            /\ \A n \in BatchNames(sv[p].results) : HoldsJust(n, LastOf(sv[p].results, n))
            /\ \A n \in NamesOf(sv[p].file_at_call.products) \ BatchNames(sv[p].results) :
                 HoldsJust(n, LastOf(sv[p].file_at_call.products, n))

\* a stored name was repeated, the batch repeated a name and left a stored one alone
C5_Witness ==
    \E p \in Procs :
        /\ Wrote(p)
        /\ ~NoDuplicates(sv[p].file_at_call.products)
        /\ NamesOf(sv[p].file_at_call.products) \ BatchNames(sv[p].results) # {}
        /\ BatchNames(sv[p].results) # {}

\* C6: saving the same batch a second time leaves the set of records that
\* the first save left.
C6_Idempotent ==
    \A p \in Procs :
        (sv[p].pc = "done" /\ sv[p].repeat) =>
            /\ sv[p].outcome = "wrote"
            /\ Range(output_file.products) = Range(sv[p].file_at_call.products)

\* a batch that replaced one stored record and kept another was saved twice
C6_Witness ==
    \E p \in Procs :
        /\ Wrote(p) /\ sv[p].repeat
        /\ BatchNames(sv[p].results) \cap NamesOf(output_file.products) # {}
        /\ NamesOf(output_file.products) \ BatchNames(sv[p].results) # {}

\* the call saw products at its start, reloaded none and recovered none
NothingRecovered(p) ==
    /\ sv[p].pc = "done"
    /\ sv[p].existing_count_before > 0
    /\ Len(sv[p].loaded) = 0
    /\ Len(sv[p].existing_results) = 0

\* C7: a call that saw N > 0 records at its start, reloaded 0 and recovered
\* 0 aborts: it has written neither the temporary file nor the snapshot,
\* which holds what it held before the call or what the cleanup made of it.
C7_AbortWritesNothing ==
    \A p \in Procs :
        NothingRecovered(p) =>
            /\ sv[p].outcome = "aborted"
            /\ ~sv[p].merged
            /\ temp_file = MissingFile
            /\ output_file \in {sv[p].file_at_call, CorruptFile,
                                OkFile(FoundOnly(sv[p].file_at_call.products))}

C7_Witness ==
    \E p \in Procs : NothingRecovered(p) /\ sv[p].outcome = "aborted" /\ output_file = CorruptFile

\* C8: a save that wrote has not written fewer records than the reload
\* returned.
C8_NeverWritesFewer ==
    \A p \in Procs : Wrote(p) => Len(sv[p].all_results) >= Len(sv[p].loaded)

\* C9: what the caller observes of a call that aborted or failed differs
\* from what it observes of a call that wrote.
C9_AbortDistinguishable ==
    \A p \in Procs :
        (sv[p].pc = "done" /\ sv[p].outcome \in {"aborted", "failed"})
            => sv[p].returned # CallerView("wrote")

\* C10: after 25 successive saves to a populated snapshot the backups
\* directory holds exactly 20 backups.
C10_TwentyBackups ==
    saves = SavesClaimed => Cardinality(DOMAIN backup_dir) = max_backups

C12_BackupAfterAnyFailure ==
    \A p \in Procs :
        (/\ sv[p].pc = "check"
         /\ output_file.kind \in {"corrupt", "bad"}
         /\ DOMAIN backup_dir # {}
         /\ \A t \in DOMAIN backup_dir :
              (\A u \in DOMAIN backup_dir : u <= t) => backup_dir[t].kind = "ok")
            => sv[p].loaded = LatestBackupProducts(backup_dir)

\* the product names of the records on a queue
QueuedNames(q) == {q[i].product_name : i \in {j \in DOMAIN q : q[j] # None}}
\* the names a worker has met with the given outcome
NamesSeen(w, outcome) == {wk[w].seen[i][1] : i \in {j \in DOMAIN wk[w].seen : wk[w].seen[j][2] = outcome}}
\* wherever a record of this run is on its way to the snapshot, or in it
PersistedNames ==
    QueuedNames(result_queue) \cup NamesOf(qm.buffer) \cup NamesOf(output_file.products)

\* C13, for the worker pool: no product that a worker found blocked has a
\* record on the result queue, in the aggregator's buffer or in the snapshot.
BlockedNeverQueued ==
    \A w \in Workers : NamesSeen(w, "blocked") \cap PersistedNames = {}

\* C13: no product whose search was blocked has a record from that outcome,
\* neither on the result queue nor in the snapshot, in the worker pool and in
\* the sequential run alike.
C13_BlockedNeverPersisted ==
    /\ BlockedNeverQueued
    /\ sq.blocked \cap NamesOf(output_file.products) = {}

\* C14: every product that a worker has found blocked has an entry in the
\* retry queue.
C14_BlockedRequeued ==
    \A w \in Workers : NamesSeen(w, "blocked") \subseteq DOMAIN retry_queue

RECURSIVE Streak(_)
\* how many blocked products end the list, back to the last record or the
\* last recreation of the browser
Streak(seen) ==
    IF seen = <<>> THEN 0
    ELSE IF seen[Len(seen)][2] = "blocked" THEN 1 + Streak(SubSeq(seen, 1, Len(seen) - 1))
    ELSE 0

IsRecreation(entry) == entry[2] \in {"recreate", "recreate_failed"}

\* C15: the counter is the number of blocked products in a row since the
\* last record or recreation; the browser is recreated exactly after three
\* blocked products in a row, whether or not the recreation works; and the
\* counter is below three whenever the worker takes the next product.
C15_RecreateAfterThreeBlocks ==
    \A w \in Workers :
        LET seen == wk[w].seen
        IN /\ wk[w].consecutive_blocks = Streak(seen)
           /\ \A i \in DOMAIN seen :
                IsRecreation(seen[i]) <=>
                    /\ i > max_consecutive_blocks
                    /\ \A k \in 1..max_consecutive_blocks : seen[i - k][2] = "blocked"
           /\ \A i \in DOMAIN seen :
                (i >= max_consecutive_blocks
                   /\ \A k \in 0..(max_consecutive_blocks - 1) : seen[i - k][2] = "blocked")
                    => (i < Len(seen) /\ IsRecreation(seen[i + 1]))
           /\ wk[w].pc = "get" => wk[w].consecutive_blocks < max_consecutive_blocks

\* a worker takes its next product after a failed attempt to recreate the browser
C15_Witness ==
    \E w \in Workers :
        /\ wk[w].pc = "get"
        /\ wk[w].seen # <<>>
        /\ wk[w].seen[Len(wk[w].seen)][2] = "recreate_failed"
        /\ wk[w].consecutive_blocks = 0
        /\ wk[w].driver = "none"

\* C16: under fair scheduling a worker that has a result for a product, of
\* whatever kind, comes back to take the next item, and product_queue.join()
\* returns: every product put on the queue was taken and marked done.
C16_EveryProductDone ==
    /\ \A w \in Workers : (wk[w].pc = "handle") ~> (wk[w].pc = "get")
    /\ <>(mn = "workers_signalled" /\ product_queue = [i \in 1..Cardinality(Workers) |-> StopSignal])

\* join() has returned in a run in which one worker met a blocked product
\* and an exception
C16_Witness ==
    /\ mn = "workers_signalled"
    /\ \E w \in Workers : NamesSeen(w, "blocked") # {} /\ NamesSeen(w, "error") # {}

\* C17 as stated: whenever resolving a product raised an exception, the
\* outcome is the record with found = FALSE and the message as error.
C17_ExceptionGivesErrorRecord ==
    \A w \in Workers :
        wk[w].event.kind = "exception"
            => wk[w].result = ErrorRec(wk[w].product_name, wk[w].event.msg)

\* C17: an exception whose message names a session or a lost window gives
\* the blocked outcome; every other exception gives the record with
\* found = FALSE and the message as error; in both cases the worker is still
\* in its loop, on its way to the finally block and the next product.
C17_ExceptionOutcome ==
    \A w \in Workers :
        wk[w].event.kind = "exception"
            => /\ wk[w].pc \in {"handle", "finally"}
               /\ IF IsSessionError(wk[w].event.msg)
                  THEN wk[w].result = Blocked
                  ELSE /\ wk[w].result # Blocked
                       /\ wk[w].result.product_name = wk[w].product_name
                       /\ wk[w].result.found = FALSE
                       /\ wk[w].result.error = wk[w].event.msg.text

\* one worker has handled a timeout and another a lost session; both are in
\* their finally blocks
C17_Witness ==
    \E w1, w2 \in Workers :
        /\ wk[w1].pc = "finally" /\ wk[w2].pc = "finally"
        /\ wk[w1].event.kind = "exception" /\ ~IsSessionError(wk[w1].event.msg)
        /\ Outcome(wk[w1].result) = "error"
        /\ wk[w2].event.kind = "exception" /\ IsSessionError(wk[w2].event.msg)
        /\ wk[w2].result = Blocked

\* C18: no step takes a product's attempts above MAX_RETRY_ATTEMPTS, and a
\* step that raises a product's attempts raises them by one (or is the
\* reload of the file at a restart), so that between two removals of a
\* product its attempts are incremented at most MAX_RETRY_ATTEMPTS times.
C18_AttemptsCapped ==
    [][\A n \in RetryNames :
          LET before == Attempts(retry_queue, n)
              after == Attempts(retry_queue', n)
          IN /\ after <= MAX_RETRY_ATTEMPTS
             /\ after > before
                  => \/ after = before + 1
                     \/ retry_queue' = LoadRetryQueue(retry_file)]_vars

\* one product is at the cap while another has been added once
C18_Witness ==
    \E n, m \in DOMAIN retry_queue :
        /\ retry_queue[n] = MAX_RETRY_ATTEMPTS
        /\ retry_queue[m] = 1

C20_RestartKeepsQueue ==
    LoadRetryQueue(retry_file) = retry_queue

\* C21: the aggregator waits for the next item only with fewer than
\* flush_size records in its buffer: the record that fills the buffer starts
\* a save of exactly the flush_size buffered records.
C21_BufferBelowFlushSize ==
    /\ qm.pc = "get" => Len(qm.buffer) < flush_size
    /\ (qm.pc = "saving" /\ qm.last = "item")
         => /\ Len(qm.buffer) = flush_size
            /\ sv[1].pc # "idle" => sv[1].results = qm.buffer

\* the save of a full buffer has written the snapshot and is about to return
C21_Witness ==
    /\ qm.pc = "saving"
    /\ qm.last = "item"
    /\ Len(qm.buffer) = flush_size
    /\ sv[1].pc = "done"
    /\ sv[1].outcome = "wrote"

\* C22: a timeout of queue.get with records in the buffer starts one save of
\* exactly those records, after which the buffer is empty; a timeout with an
\* empty buffer starts no save and leaves the buffer empty.
C22_TimeoutFlush ==
    [][/\ (qm.pc = "get" /\ qm'.last = "timeout" /\ result_queue = <<>>)
          => IF qm.buffer # <<>>
             THEN /\ qm'.pc = "saving"
                  /\ qm'.then = "get"
                  /\ sv'[1].pc = "read1"
                  /\ sv'[1].results = qm.buffer
                  /\ sv'[1].calls = sv[1].calls + 1
             ELSE /\ qm'.pc = "get"
                  /\ qm'.buffer = <<>>
                  /\ sv' = sv
       /\ (qm.pc = "saving" /\ qm.last = "timeout" /\ qm'.pc # "saving")
          => (qm'.pc = "get" /\ qm'.buffer = <<>>)]_vars

\* the save started by a timeout has written the buffered records
C22_Witness ==
    /\ qm.pc = "saving"
    /\ qm.last = "timeout"
    /\ qm.buffer # <<>>
    /\ sv[1].pc = "done"
    /\ sv[1].outcome = "wrote"
    /\ sv[1].results = qm.buffer

\* C23: taking the stop signal starts a save of every record still in the
\* buffer (none when the buffer is empty) and then ends the loop; from the
\* stop signal on the aggregator takes nothing more from the result queue.
C23_StopFlushesAndEnds ==
    [][/\ (qm.pc = "get" /\ qm'.last = "stop")
          => /\ result_queue # <<>> /\ Head(result_queue) = None
             /\ IF qm.buffer # <<>>
                THEN /\ qm'.pc = "saving"
                     /\ qm'.then = "exit"
                     /\ sv'[1].pc = "read1"
                     /\ sv'[1].results = qm.buffer
                ELSE /\ qm'.pc = "exit"
                     /\ sv' = sv
       /\ (qm.last = "stop" /\ qm.pc = "saving" /\ qm'.pc # "saving")
          => (qm'.pc = "exit" /\ qm'.buffer = <<>>)
       /\ qm.last = "stop"
          => /\ qm'.last = "stop"
             /\ Len(result_queue') >= Len(result_queue)
       /\ qm.pc = "exit" => qm' = qm]_vars

\* the final save, started by the stop signal, has written the last records
C23_Witness ==
    /\ qm.pc = "saving"
    /\ qm.then = "exit"
    /\ qm.last = "stop"
    /\ qm.buffer # <<>>
    /\ sv[1].pc = "done"
    /\ sv[1].outcome = "wrote"

\* the workers that have left their loop
Exited == {w \in Workers : wk[w].pc = "exit"}

\* C24: once the stop signals are on the product queue every worker leaves
\* its loop; no worker leaves before the signals were put; and the workers
\* that have left and the signals still queued always add up to the number
\* of workers, one signal taken per worker.
C24_WorkersStop ==
    /\ (mn = "workers_signalled") ~> (Exited = Workers)
    /\ [](Exited # {} => mn # "join")
    /\ [](mn # "join"
            => /\ \A i \in DOMAIN product_queue : product_queue[i] = StopSignal
               /\ Cardinality(Exited) + Len(product_queue) = Cardinality(Workers))

\* every worker has left its loop and no stop signal is left over
C24_Witness ==
    /\ Exited = Workers
    /\ product_queue = <<>>
    /\ \E w \in Workers : wk[w].seen # <<>>

\* C25: two threads of one process are never inside the body of
\* save_results_thread_safe at the same time.
C25_OneThreadInside ==
    \A t, u \in Procs : (t # u /\ InsideSave(t)) => ~InsideSave(u)

\* one thread is in its save after the other thread's save has returned
C25_Witness ==
    \E t, u \in Procs :
        /\ t # u
        /\ sv[t].pc \in {"merge", "open", "dump", "rename"}
        /\ sv[u].pc = "idle"
        /\ sv[u].calls = 1

\* the search result of the worked example: 4.99, 1.00 and 3.49
ExampleCandidates == <<NestleTwoPercent, GenericSoap, NestleCarton>>

\* C26: for "Milk 2L Nestle" and the three candidates of the example the
\* candidate at 3.49 is chosen; and whatever the search and its result, the
\* choice is the value of BestProduct for that name and that list.
C26_ExampleChoosesCheapest ==
    (ms.pc \in {"details", "done"} /\ ms.products # <<>>)
        => /\ ms.best_index = BestProduct(ms.product_name, ms.products)
           /\ (ms.product_name = MilkTarget /\ ms.products = ExampleCandidates)
                => /\ ms.best_index = 3
                   /\ ms.products[ms.best_index].price = 349

\* the example has been run and the carton is best_product
C26_Witness ==
    /\ ms.pc = "details"
    /\ ms.product_name = MilkTarget
    /\ ms.products = ExampleCandidates
    /\ ms.best_product = NestleCarton

\* C27: a search that returns no candidates gives the record with
\* found = FALSE, and get_product_details is not called.
C27_NoCandidatesNotFound ==
    (ms.pc = "done" /\ ms.products = <<>>)
        => /\ ms.result # Blocked
           /\ ms.result.product_name = ms.product_name
           /\ ms.result.found = FALSE
           /\ ~ms.details_fetched

\* a search for "Bread White" has returned no candidates and the call is over
C27_Witness ==
    /\ ms.pc = "done"
    /\ ms.products = <<>>
    /\ ms.product_name = BreadTarget
    /\ ms.result = NotFoundRec(BreadTarget)

\* the accepted candidates whose match ratio is less than 0.1 below the
\* highest match ratio among the accepted candidates
SimilarMatches(product_name, products) ==
    LET matching_products == MatchingProducts(product_name, products)
        unit == RatioUnit(SearchTerms(product_name))
        top == CHOOSE x \in Range(matching_products) :
                   \A y \in Range(matching_products) : y.match_ratio <= x.match_ratio
    IN {x \in Range(matching_products) : 10 * (top.match_ratio - x.match_ratio) < unit}

C30_FallbackFirst ==
    (/\ ms.pc \in {"details", "done"}
     /\ ms.products # <<>>
     /\ MatchingProducts(ms.product_name, ms.products) = <<>>)
        => /\ ms.best_index = 1
           /\ ms.pc = "details" => ms.best_product = ms.products[1]

\* no candidate matches the search and the first of two different candidates is chosen
C30_Witness ==
    /\ ms.pc = "details"
    /\ Len(ms.products) >= 2
    /\ ms.products[1] # ms.products[Len(ms.products)]
    /\ MatchingProducts(ms.product_name, ms.products) = <<>>
    /\ ms.best_product = ms.products[1]

\* the names for which some worker met this outcome
SeenByWorkers(outcome) == UNION {NamesSeen(w, outcome) : w \in Workers}

\* C28: a run of the pool over two names on an empty store, the first
\* found and the second without candidates, ends with a snapshot of
\* total_products = 2 and products_found = 1.
C28_TwoProductsOneFound ==
    (/\ mn = "done"
     /\ qm.pc = "exit"
     /\ Exited = Workers
     /\ SeenByWorkers("found") = {Catalogue[1]}
     /\ SeenByWorkers("notfound") = {Catalogue[2]}
     /\ SeenByWorkers("blocked") = {}
     /\ SeenByWorkers("error") = {})
        => /\ TotalProducts(output_file) = 2
           /\ ProductsFound(output_file) = 1

(* ---------------- the match ratio and the details page ---------------- *)

\* the terms as the statement of C31 has them: the words longer than two
\* characters in lower case, and the whole name in lower case
StatedTerms(product_name) ==
    LET words == SelectSeq(Split(product_name), LAMBDA t : Len(t) > 2)
    IN Append([i \in DOMAIN words |-> Lower(words[i])], Lower(product_name))

\* how many of the terms longer than `over` characters occur in the name
TermsFound(terms, over, name) ==
    Cardinality({k \in DOMAIN terms : Len(terms[k]) > over /\ Contains(terms[k], Lower(name))})

\* C31 as stated: the ratio matching_terms / len(search_terms) of each
\* candidate is the share of all stated terms that occur in its name.
C31_RatioCountsAllTerms ==
    (ms.pc \in {"details", "done"} /\ ms.products # <<>>)
        => \A i \in DOMAIN ms.products :
              ms.matching_terms[i] * Len(StatedTerms(ms.product_name))
                  = TermsFound(StatedTerms(ms.product_name), 0, ms.products[i].name)
                        * Len(ms.search_terms)

\* C31 amended: the search terms are the words longer than two characters
\* in lower case and, for a name longer than three characters, the whole
\* name in lower case without surrounding blanks; matching_terms of a
\* candidate counts the search terms longer than three characters that
\* occur in its lower-case name, and the ratio divides by the number of all
\* search terms.
C31_RatioCountsLongTerms ==
    (ms.pc \in {"details", "done"} /\ ms.products # <<>>)
        => /\ ms.search_terms =
                 LET words == SelectSeq(Split(ms.product_name), LAMBDA t : Len(t) > 2)
                     lowered == [i \in DOMAIN words |-> Lower(words[i])]
                 IN IF Len(ms.product_name) > 3
                    THEN Append(lowered, Strip(Lower(ms.product_name)))
                    ELSE lowered
           /\ \A i \in DOMAIN ms.products :
                 ms.matching_terms[i] = TermsFound(ms.search_terms, 3, ms.products[i].name)

\* "Red Tea" was searched and "Green Tea" is among the candidates: the term
\* "tea" occurs in its name and is not counted
C31_Witness ==
    /\ ms.pc = "details"
    /\ ms.product_name = TeaTarget
    /\ \E i \in DOMAIN ms.products :
          /\ ms.products[i] = GreenTea
          /\ ms.matching_terms[i] = 0
          /\ TermsFound(ms.search_terms, 2, GreenTea.name) = 1

\* the candidate of the search result that was chosen, as the search gave it
ChosenCandidate == ms.products[ms.best_index]

\* a call is over in which get_product_details returned a product
DetailsReturned ==
    /\ ms.pc = "done"
    /\ ms.detail_fetches = 1
    /\ Detailed(ms.outcome) # None

\* C32: after get_product_details returned a product, each field of a found
\* record is the value of the details page when that value is not null and
\* the value of the search result when it is null.
C32_NullNeverReplaces ==
    (DetailsReturned /\ ms.result.found)
        => LET detailed == Detailed(ms.outcome)
           IN /\ ms.result.walmart_price =
                    IF detailed.price # NoPrice THEN detailed.price ELSE ChosenCandidate.price
              /\ ms.result.walmart_product_name =
                    IF detailed.name # <<>> THEN detailed.name ELSE ChosenCandidate.name

\* a name best_product may end with (line 395)
ValidName(name) == name # <<>> /\ name # UnknownProduct /\ Len(name) >= 2

\* a key field of the product is missing
LacksKeyField(product) ==
    product.price = NoPrice \/ product.name = <<>> \/ product.product_url = ""

\* C33 as stated: get_product_details is called at most once in a call, and
\* only for a chosen candidate that lacks a price or another key field.
C33_FetchOnlyWhenLacking ==
    /\ ms.detail_fetches <= 1
    /\ ms.detail_fetches = 1 => LacksKeyField(ChosenCandidate)

\* C33 amended: get_product_details is called at most once in a call, and
\* it is called exactly when the chosen candidate has a product URL,
\* whether or not it has a price.
C33_FetchOnceIfUrl ==
    /\ ms.detail_fetches <= 1
    /\ ms.details_fetched <=> ms.detail_fetches = 1
    /\ (ms.pc = "done" /\ ms.products # <<>>)
          => (ms.detail_fetches = 1 <=> ChosenCandidate.product_url # "")
    /\ ms.pc # "done" => ms.detail_fetches = 0

\* the details page was fetched once for a chosen candidate that has a
\* name, a price and a URL
C33_Witness ==
    /\ ms.pc = "done"
    /\ ms.detail_fetches = 1
    /\ ~LacksKeyField(ChosenCandidate)

\* the values a found record takes from the search result
FromSearchResult ==
    /\ ms.result # Blocked
    /\ ms.result.found
    /\ ms.result.product_name = ms.product_name
    /\ ms.result.walmart_product_name = ChosenCandidate.name
    /\ ms.result.walmart_price = ChosenCandidate.price

\* C34 as stated: when get_product_details returns nothing, is blocked or
\* raises, the record is found and built from the search result.
C34_AnyFailureFallsBack ==
    (/\ ms.pc = "done"
     /\ ms.detail_fetches = 1
     /\ ms.outcome \in {"none", "blocked", "raised"}
     /\ ValidName(ChosenCandidate.name))
        => FromSearchResult

\* C34 amended: when get_product_details raises, or returns nothing while
\* the browser is not on a blocked page, the record is found and built from
\* the search result; when it returns nothing on a blocked page the call
\* returns None and no record.
C34_FailureFallsBackUnlessBlocked ==
    (/\ ms.pc = "done"
     /\ ms.detail_fetches = 1
     /\ ValidName(ChosenCandidate.name))
        => /\ ms.outcome \in {"none", "raised"} => FromSearchResult
           /\ ms.outcome = "blocked" => ms.result = Blocked

\* get_product_details raised and the record has the price of the search result
C34_Witness ==
    /\ ms.pc = "done"
    /\ ms.outcome = "raised"
    /\ ChosenCandidate.price # NoPrice
    /\ FromSearchResult

(* ------------------- what reaches the result channel ------------------ *)

\* C35: every item a worker puts on the result queue is a record with
\* found = TRUE, so the queue holds nothing else besides the stop item of
\* the main thread; and no step of a worker touches the snapshot, its
\* temporary file or the backups, or enters save_results_thread_safe.
C35_WorkersQueueOnlyFound ==
    /\ [](\A i \in DOMAIN result_queue :
             result_queue[i] # None => result_queue[i].found)
    /\ [][\A w \in Workers :
            wk'[w] # wk[w]
               => /\ UNCHANGED <<output_file, temp_file, backup_dir, sv>>
                  /\ \/ result_queue' = result_queue
                     \/ /\ result_queue' = Append(result_queue, wk[w].result)
                        /\ wk[w].result # Blocked
                        /\ wk[w].result.found]_vars

\* one worker has met a product that was not found and another an error,
\* a found record is on the result queue, and nothing has been saved yet
C35_Witness ==
    /\ \E w \in Workers : NamesSeen(w, "notfound") # {}
    /\ \E w \in Workers : NamesSeen(w, "error") # {}
    /\ Len(result_queue) = 1
    /\ result_queue[1] # None
    /\ result_queue[1].found
    /\ sv[1].calls = 0

(* ------------------- backups and the written counts ------------------- *)

\* C36: whenever a call of save_results_thread_safe replaces a snapshot
\* that holds at least one record, the backups directory holds at that
\* moment a backup equal to the snapshot being replaced, and when the call
\* ends the directory holds at most max_backups backups.
C36_BackupBeforeOverwrite ==
    [][\A p \in Procs :
          (/\ sv[p].pc = "rename"
           /\ sv'[p].outcome = "wrote"
           /\ output_file.kind = "ok"
           /\ Len(output_file.products) > 0)
             => /\ \E t \in DOMAIN backup_dir : backup_dir[t] = output_file
                /\ Cardinality(DOMAIN backup_dir') <= max_backups]_vars

\* C37: in every snapshot a call of save_results_thread_safe installs,
\* total_products is the number of entries of products and products_found
\* is the number of those entries with found = TRUE.
C37_CountsMatchProducts ==
    [][\A p \in Procs :
          (sv[p].pc = "rename" /\ sv'[p].outcome = "wrote" /\ output_file'.kind = "ok")
             => /\ output_file'.total_products = Len(output_file'.products)
                /\ output_file'.products_found =
                      Cardinality({i \in DOMAIN output_file'.products :
                                      output_file'.products[i].found})]_vars

\* a call has written a snapshot of two records of which one is found
C37_Witness ==
    /\ sv[1].pc = "done"
    /\ sv[1].outcome = "wrote"
    /\ output_file.kind = "ok"
    /\ output_file.total_products = 2
    /\ output_file.products_found = 1
    /\ \E i \in DOMAIN output_file.products : ~output_file.products[i].found

(* ------------------- what the aggregator lets go of ------------------- *)

\* the names of the records the workers have put on the result queue
NamesPutOnQueue == UNION {NamesSeen(w, "found") : w \in Workers}

\* C38: the aggregator never drops a buffered record.  Whenever it empties
\* its buffer after a call of save_results_thread_safe, every call it has
\* made so far returned after writing the snapshot; and once the aggregator
\* has left its loop and nothing else is writing the snapshot, every record
\* the workers put on the result queue is in the snapshot.
C38_NoRecordDropped ==
    /\ [][(qm.pc = "saving" /\ qm'.pc # "saving") => saves = sv[1].calls]_vars
    /\ []((qm.pc = "exit" /\ cl.pc = "done")
             => NamesPutOnQueue \subseteq NamesOf(output_file.products))

(* ------------------- the stop item of the result queue ---------------- *)

\* a worker holds a product it has taken and not yet marked done
HoldsProduct(w) == wk[w].pc \in {"search", "handle", "finally"}

\* the step puts a record (not the stop item) on the result queue
PutsRecord ==
    /\ Len(result_queue') = Len(result_queue) + 1
    /\ result_queue'[Len(result_queue')] # None

\* the step puts the stop item on the result queue
PutsStopItem ==
    /\ Len(result_queue') = Len(result_queue) + 1
    /\ result_queue'[Len(result_queue')] = None

\* C39: the main thread puts the stop item on the result queue only when
\* every product it enqueued has been marked done (none is left on the
\* product queue and no worker holds one); a worker puts a record while its
\* product still counts as unfinished, before the main thread's join can
\* return; and no record is ever put after the stop item.
C39_StopItemAfterAllRecords ==
    /\ [][PutsStopItem
            => /\ \A i \in DOMAIN product_queue : IsStopSignal(product_queue[i])
               /\ \A w \in Workers : ~HoldsProduct(w)]_vars
    /\ [][PutsRecord
            => /\ unfinished > 0
               /\ mn = "join"
               /\ \E w \in Workers : wk[w].pc = "handle" /\ wk'[w].pc = "finally"]_vars
    /\ [](\A i \in DOMAIN result_queue : result_queue[i] = None => i = Len(result_queue))

\* the stop item is on the result queue behind two records, put by the two
\* workers, which the aggregator has not taken yet
C39_Witness ==
    /\ mn = "done"
    /\ Len(result_queue) = 3
    /\ result_queue[3] = None
    /\ \A w \in Workers : NamesSeen(w, "found") # {}

(* ------------------- what scrape_parallel enqueues -------------------- *)

\* the step in which scrape_parallel reads the snapshot and the spreadsheet
\* and fills the product queue
StartsRun == mn = "start" /\ mn' # "start"

\* the distinct names of the spreadsheet's Product column
CatalogNames == {sp.column[i] : i \in DOMAIN sp.column}

\* how often a name is on the product queue after the step
TimesEnqueued(n) == Cardinality({i \in DOMAIN product_queue' : product_queue'[i] = n})

\* how often the workers have taken a name so far
TimesResolved(n) ==
    Cardinality({e \in UNION {{<<w, i>> : i \in DOMAIN wk[w].seen} : w \in Workers} :
                    wk[e[1]].seen[e[2]][1] = n})
      + Cardinality({w \in Workers : wk[w].pc \in {"search", "handle"} /\ wk[w].product_name = n})

\* the names with a record in the results loaded at start-up: the snapshot's
\* records, or those of the latest backup when the snapshot is not JSON
NamesAtStartup ==
    CASE output_file.kind = "ok" -> NamesOf(output_file.products)
      [] output_file.kind = "corrupt" -> NamesOf(LatestBackupProducts(backup_dir))
      [] OTHER -> {}

\* C40 as stated: scrape_parallel enqueues no name that has a record in the
\* snapshot at start-up and every other distinct name of the catalog exactly
\* once, and no name is resolved more than once in a run.
C40_EnqueuesAllNotInSnapshot ==
    /\ [][StartsRun
            => /\ \A n \in NamesOf(output_file.products) : TimesEnqueued(n) = 0
               /\ \A n \in CatalogNames \ NamesOf(output_file.products) : TimesEnqueued(n) = 1
               /\ \A i \in DOMAIN product_queue' : product_queue'[i] \in CatalogNames]_vars
    /\ [](\A n \in CatalogNames : TimesResolved(n) <= 1)

\* C40, amended: scrape_parallel enqueues no name that has a record in the
\* results loaded at start-up (the snapshot's records, or the latest backup's
\* when the snapshot is not valid JSON) and every other distinct name of the
\* catalog exactly once, and no name is resolved more than once in a run.
C40_EnqueuesAllNotLoaded ==
    /\ [][StartsRun
            => /\ \A n \in NamesAtStartup : TimesEnqueued(n) = 0
               /\ \A n \in CatalogNames \ NamesAtStartup : TimesEnqueued(n) = 1
               /\ \A i \in DOMAIN product_queue' : product_queue'[i] \in CatalogNames]_vars
    /\ [](\A n \in CatalogNames : TimesResolved(n) <= 1)

\* the column names 'b' twice and 'a', which the snapshot held at start-up;
\* the run is over and one worker has found 'b'
C40_Witness ==
    /\ sp.column = <<"b", "a", "b">>
    /\ sp.existing_results = <<Rec("a", TRUE, 1)>>
    /\ mn = "done"
    /\ \E w \in Workers : NamesSeen(w, "found") = {"b"}
    /\ \A n \in CatalogNames : TimesResolved(n) = IF n = "b" THEN 1 ELSE 0

====
